---- MODULE Spec2Model ----
(***************************************************************************)
(* Model of the NFA compiler of syntax-searcher (src/src/compiler.rs):     *)
(* Thompson construction (compile_state), the five optimize passes, the    *)
(* normalize pass, and the matcher that runs the machine over a parsed     *)
(* node list.                                                              *)
(***************************************************************************)
EXTENDS Integers, Sequences, FiniteSets

(***************************************************************************)
(* Bounds of the model.                                                    *)
(***************************************************************************)
\* greatest number of tokens in each alternative of the shared-suffix queries
MaxSuffix == 6
\* greatest length of a top-level input node list
MaxInput == 3
\* greatest number of State ids drawn by compilations that ended before this one
MaxBase == 1
\* greatest number of State ids drawn by other compilations during one compilation
MaxOther == 2

\* greatest number of entries the directory walker yields
MaxFiles == 4

\* greatest number of tokens of a source file given to the parser
MaxTokens == 4

\* greatest number of characters of a text given to the tokenizer
MaxNumber == 5
MaxText == 4

\* number of optimize iterations run by compile_query
OptimizeIterations == 5

(***************************************************************************)
(* Generic helpers.                                                        *)
(***************************************************************************)
Min(a, b) == IF a < b THEN a ELSE b

SetMin(S) == CHOOSE x \in S : \A y \in S : x <= y

SetMax(S) == CHOOSE x \in S : \A y \in S : y <= x

RECURSIVE Sorted(_)
\* the elements of a finite set of integers in ascending order (itertools sorted())
Sorted(S) == IF S = {} THEN << >>
             ELSE LET m == SetMin(S) IN << m >> \o Sorted(S \ {m})

Range(s) == { s[i] : i \in 1..Len(s) }

RECURSIVE Concat(_)
\* concatenation of a sequence of sequences
Concat(ss) == IF ss = << >> THEN << >> ELSE Head(ss) \o Concat(Tail(ss))

RECURSIVE Retain(_, _)
\* Vec::retain: keep the elements whose flag is TRUE, in order
Retain(s, keep) ==
    IF s = << >> THEN << >>
    ELSE (IF Head(keep) THEN << Head(s) >> ELSE << >>) \o Retain(Tail(s), Tail(keep))

(***************************************************************************)
(* Matcher: the label of an NFA edge (compiler.rs, enum Matcher).  Every   *)
(* label is a record with the same fields; ty holds the token type, the    *)
(* opener of a Delimited or the pattern of a Regex, cp the closer of a     *)
(* Delimited ("None" when absent), start the nested start state.           *)
(***************************************************************************)
NoState == -1

Token(ty) == [k |-> "Token", ty |-> ty, cp |-> "", start |-> NoState]

Delimited(op, cp, start) == [k |-> "Delimited", ty |-> op, cp |-> cp, start |-> start]

Any == [k |-> "Any", ty |-> "", cp |-> "", start |-> NoState]

End == [k |-> "End", ty |-> "", cp |-> "", start |-> NoState]

Regex(re) == [k |-> "Regex", ty |-> re, cp |-> "", start |-> NoState]

Epsilon == [k |-> "Epsilon", ty |-> "", cp |-> "", start |-> NoState]

Accept == [k |-> "Accept", ty |-> "", cp |-> "", start |-> NoState]

(***************************************************************************)
(* ParsedAstMatcher: the query AST (parser.rs).  sub holds the boxed       *)
(* matcher(s) of a quantifier or Or, the list of a Nested and the content  *)
(* of a Delimited.                                                         *)
(***************************************************************************)
PToken(ty) == [k |-> "Token", ty |-> ty, cp |-> "", sub |-> << >>]

PDelimited(op, cp, content) == [k |-> "Delimited", ty |-> op, cp |-> cp, sub |-> content]

PAny == [k |-> "Any", ty |-> "", cp |-> "", sub |-> << >>]

PEnd == [k |-> "End", ty |-> "", cp |-> "", sub |-> << >>]

PRegex(re) == [k |-> "Regex", ty |-> re, cp |-> "", sub |-> << >>]

Plus(m) == [k |-> "Plus", ty |-> "", cp |-> "", sub |-> << m >>]

Star(m) == [k |-> "Star", ty |-> "", cp |-> "", sub |-> << m >>]

QuestionMark(m) == [k |-> "QuestionMark", ty |-> "", cp |-> "", sub |-> << m >>]

Or(a, b) == [k |-> "Or", ty |-> "", cp |-> "", sub |-> << a, b >>]

Nested(xs) == [k |-> "Nested", ty |-> "", cp |-> "", sub |-> xs]

(***************************************************************************)
(* Thompson construction.  A builder b is the Machine under construction:  *)
(* b.states maps a state id to its transition list (a sequence of          *)
(* <<matcher, target>> pairs), b.ids is the sequence of values index()     *)
(* returns to this compilation, b.n the number of them used so far, and    *)
(* b.acc is ACCEPT.id.                                                     *)
(***************************************************************************)
\* Machine::new: the states map holds a clone of ACCEPT
MachineNew(acc, ids) ==
    [states |-> [id \in {acc} |-> << << Accept, acc >> >>], n |-> 0, ids |-> ids, acc |-> acc,
     start |-> 0, end |-> 0]

\* State::add_transition / Machine::add_transition: push (with, to)
add_transition(states, from, to, with) ==
    [states EXCEPT ![from] = Append(@, << with, to >>)]

\* Machine::state: draw an id and insert an empty state under it (or_insert);
\* the id of the new state is left in b.end
state(b) ==
    LET id == b.ids[b.n + 1]
    IN [b EXCEPT !.states = IF id \in DOMAIN b.states THEN b.states
                            ELSE [x \in DOMAIN b.states \cup {id} |->
                                     IF x = id THEN << >> ELSE b.states[x]],
                 !.n = b.n + 1,
                 !.end = id]

\* the four leaf cases of compile_state: end, then start, then start -with-> end
Leaf(b, with) ==
    LET b1 == state(b)
        b2 == state(b1)
        end == b1.end
        start == b2.end
    IN [b2 EXCEPT !.states = add_transition(b2.states, start, end, with),
                  !.start = start, !.end = end]

RECURSIVE compile_state(_, _)
RECURSIVE link_list(_, _, _)
RECURSIVE link_rest(_, _)

\* the loop of link_list over rest; b.start and b.end hold (start, end) so far
link_rest(b, rest) ==
    IF rest = << >> THEN b
    ELSE LET c == compile_state(b, Head(rest))
             d == [c EXCEPT !.states = add_transition(c.states, b.end, c.start, Epsilon),
                            !.start = b.start]
         IN link_rest(d, Tail(rest))

link_list(b, first, rest) == link_rest(compile_state(b, first), rest)

\* Nested and parse_query_ast: link the list, or one fresh state when it is empty
compile_list(b, content) ==
    IF content # << >> THEN link_list(b, Head(content), Tail(content))
    ELSE LET b1 == state(b) IN [b1 EXCEPT !.start = b1.end]

compile_state(b, matcher) ==
    CASE matcher.k = "Token" -> Leaf(b, Token(matcher.ty))
      [] matcher.k = "Any" -> Leaf(b, Any)
      [] matcher.k = "End" -> Leaf(b, End)
      [] matcher.k = "Regex" -> Leaf(b, Regex(matcher.ty))
      [] matcher.k = "Plus" ->
            LET c == compile_state(b, matcher.sub[1])
            IN [c EXCEPT !.states = add_transition(c.states, c.end, c.start, Epsilon)]
      [] matcher.k = "QuestionMark" ->
            LET c == compile_state(b, matcher.sub[1])
                d == state(c)
                new_end == d.end
                s1 == add_transition(d.states, c.start, new_end, Epsilon)
                s2 == add_transition(s1, c.end, new_end, Epsilon)
            IN [d EXCEPT !.states = s2, !.start = c.start, !.end = new_end]
      [] matcher.k = "Star" ->
            LET c == compile_state(b, matcher.sub[1])
                d == state(c)
                new_end == d.end
                s1 == add_transition(d.states, c.start, new_end, Epsilon)
                s2 == add_transition(s1, c.end, c.start, Epsilon)
                s3 == add_transition(s2, c.end, new_end, Epsilon)
            IN [d EXCEPT !.states = s3, !.start = c.start, !.end = new_end]
      [] matcher.k = "Or" ->
            LET b0 == state(b)
                start == b0.end
                ca == compile_state(b0, matcher.sub[1])
                cb == compile_state(ca, matcher.sub[2])
                d == state(cb)
                new_end == d.end
                s1 == add_transition(d.states, start, ca.start, Epsilon)
                s2 == add_transition(s1, start, cb.start, Epsilon)
                s3 == add_transition(s2, ca.end, new_end, Epsilon)
                s4 == add_transition(s3, cb.end, new_end, Epsilon)
            IN [d EXCEPT !.states = s4, !.start = start, !.end = new_end]
      [] matcher.k = "Delimited" ->
            LET content == matcher.sub
                c == IF content # << >>
                     THEN LET l == link_list(b, Head(content), Tail(content))
                          IN [l EXCEPT !.states =
                                  add_transition(l.states, l.end, b.acc, Epsilon)]
                     ELSE [b EXCEPT !.start = b.acc]
                inner_start == c.start
                d1 == state(c)
                end == d1.end
                d2 == state(d1)
                delim == d2.end
            IN [d2 EXCEPT !.states = add_transition(d2.states, delim, end,
                                        Delimited(matcher.ty, matcher.cp, inner_start)),
                          !.start = delim, !.end = end]
      [] matcher.k = "Nested" -> compile_list(b, matcher.sub)

\* Machine::parse_query_ast
parse_query_ast(b, content) == compile_list(b, content)

RECURSIVE NumStates(_)
RECURSIVE NumStatesList(_)
\* the number of index() calls compile_state makes for a matcher
NumStates(matcher) ==
    CASE matcher.k \in {"Token", "Any", "End", "Regex"} -> 2
      [] matcher.k = "Plus" -> NumStates(matcher.sub[1])
      [] matcher.k \in {"QuestionMark", "Star"} -> NumStates(matcher.sub[1]) + 1
      [] matcher.k = "Or" -> NumStates(matcher.sub[1]) + NumStates(matcher.sub[2]) + 2
      [] matcher.k = "Delimited" -> NumStatesList(matcher.sub) + 2
      [] matcher.k = "Nested" ->
            IF matcher.sub = << >> THEN 1 ELSE NumStatesList(matcher.sub)

NumStatesList(xs) == IF xs = << >> THEN 0 ELSE NumStates(Head(xs)) + NumStatesList(Tail(xs))

\* the number of index() calls of parse_query_ast for a whole query
NumStatesQuery(content) == IF content = << >> THEN 1 ELSE NumStatesList(content)

(***************************************************************************)
(* A Machine is a record [initial, states]; states maps an id to the       *)
(* transition list of the state with that id.                              *)
(***************************************************************************)
Keys(m) == DOMAIN m.states

\* every id a transition list refers to: targets and Delimited.start
Refs(transitions) ==
    { transitions[i][2] : i \in 1..Len(transitions) }
        \cup { transitions[i][1].start :
                 i \in { j \in 1..Len(transitions) : transitions[j][1].k = "Delimited" } }

(***************************************************************************)
(* optimize, pass 1: convert a[t] -> b[e] -> c to a[t] -> c.               *)
(***************************************************************************)
RECURSIVE RedirectListKeep(_, _, _)
\* RedirectList with the redirected edge added beside the old one
RedirectListKeep(transitions, id, new_id) ==
    IF transitions = << >> THEN << >>
    ELSE (IF Head(transitions)[2] = id
          THEN << Head(transitions), << Head(transitions)[1], new_id >> >>
          ELSE << Head(transitions) >>)
         \o RedirectListKeep(Tail(transitions), id, new_id)

RECURSIVE RedirectList(_, _, _)
\* the inner loop over one transition list: every target id becomes new_id
RedirectList(transitions, id, new_id) ==
    IF transitions = << >> THEN << >>
    ELSE << IF Head(transitions)[2] = id THEN << Head(transitions)[1], new_id >>
            ELSE Head(transitions) >>
         \o RedirectList(Tail(transitions), id, new_id)

\* the loop over states.values_mut()
Redirect(states, id, new_id) ==
    [x \in DOMAIN states |-> RedirectList(states[x], id, new_id)]

\* the body of the loop for one id: redirect every edge into an Epsilon-only state
CollapseOne(states, id, acc) ==
    IF id = acc THEN states
    ELSE IF Len(states[id]) # 1 THEN states
    ELSE IF states[id][1][1] # Epsilon THEN states
    ELSE Redirect(states, id, states[id][1][2])

RECURSIVE CollapseLoop(_, _, _)
CollapseLoop(states, ids, acc) ==
    IF ids = << >> THEN states
    ELSE CollapseLoop(CollapseOne(states, Head(ids), acc), Tail(ids), acc)

Collapse(m, acc) == [m EXCEPT !.states = CollapseLoop(m.states, Sorted(Keys(m)), acc)]

(***************************************************************************)
(* optimize, pass 2: convert a[e] -> b[T] -> c to a[t] -> c.               *)
(***************************************************************************)
\* InlineOne without the append: the Epsilon edges are only dropped
InlineOneDrop(states, id, acc) ==
    IF id = acc THEN states
    ELSE [states EXCEPT ![id] = Retain(@, [i \in 1..Len(@) |-> @[i][1] # Epsilon])]

\* the body of the loop for one id: every Epsilon edge is dropped and the
\* transitions of its target, as they are now, are appended
InlineOne(states, id, acc) ==
    IF id = acc THEN states
    ELSE LET a == states[id]
             new_transitions ==
                 Concat([i \in 1..Len(a) |->
                            IF a[i][1] = Epsilon THEN states[a[i][2]] ELSE << >>])
             remove_ids == [i \in 1..Len(a) |-> a[i][1] # Epsilon]
         IN [states EXCEPT ![id] = Retain(a, remove_ids) \o new_transitions]

RECURSIVE InlineLoop(_, _, _)
InlineLoop(states, ids, acc) ==
    IF ids = << >> THEN states
    ELSE InlineLoop(InlineOne(states, Head(ids), acc), Tail(ids), acc)

Inline(m, acc) == [m EXCEPT !.states = InlineLoop(m.states, Sorted(Keys(m)), acc)]

(***************************************************************************)
(* optimize, pass 3: clean up unused states.                               *)
(***************************************************************************)
RECURSIVE VisitTargetsOnly(_, _, _)
\* Visit without the push of Delimited.start
VisitTargetsOnly(m, seen, queue) ==
    LET fresh == (queue \cap Keys(m)) \ seen
    IN IF fresh = {} THEN seen
       ELSE VisitTargetsOnly(m, seen \cup fresh,
                UNION { { m.states[id][i][2] : i \in 1..Len(m.states[id]) } : id \in fresh })

RECURSIVE Visit(_, _, _)
\* the work-list loop: seen are the ids taken out of to_remove so far
Visit(m, seen, queue) ==
    LET fresh == (queue \cap Keys(m)) \ seen
    IN IF fresh = {} THEN seen
       ELSE Visit(m, seen \cup fresh, UNION { Refs(m.states[id]) : id \in fresh })

Reachable(m) == Visit(m, {}, {m.initial})

Prune(m) == [m EXCEPT !.states = [id \in Reachable(m) |-> m.states[id]]]

(***************************************************************************)
(* optimize, pass 4: remove duplicate transitions.                         *)
(***************************************************************************)
\* retain(|t| seen.insert(t)): the first occurrence of each pair stays
DedupeList(transitions) ==
    Retain(transitions,
           [i \in 1..Len(transitions) |->
               \A j \in 1..(i - 1) : transitions[j] # transitions[i]])

Dedupe(m) == [m EXCEPT !.states = [id \in Keys(m) |-> DedupeList(m.states[id])]]

(***************************************************************************)
(* optimize, pass 5: merge states with identical transition sets.          *)
(***************************************************************************)
RECURSIVE MergeInner(_, _, _, _, _)
\* the inner loop over the ids after i: remap maps a merged id to its survivor
MergeInner(states, i, js, remap, acc) ==
    IF js = << >> THEN remap
    ELSE LET j == Head(js)
             r == IF j = acc \/ j \in DOMAIN remap THEN remap
                  ELSE IF Range(states[i]) = Range(states[j])
                       THEN [x \in DOMAIN remap \cup {j} |-> IF x = j THEN i ELSE remap[x]]
                       ELSE remap
         IN MergeInner(states, i, Tail(js), r, acc)

RECURSIVE MergeOuterAll(_, _, _, _)
\* MergeOuter with ACCEPT taken as a survivor like any other id
MergeOuterAll(states, ids, remap, acc) ==
    IF ids = << >> THEN remap
    ELSE LET i == Head(ids)
             r == IF i \in DOMAIN remap THEN remap
                  ELSE MergeInner(states, i, Tail(ids), remap, acc)
         IN MergeOuterAll(states, Tail(ids), r, acc)

RECURSIVE MergeOuter(_, _, _, _)
MergeOuter(states, ids, remap, acc) ==
    IF ids = << >> THEN remap
    ELSE LET i == Head(ids)
             r == IF i = acc \/ i \in DOMAIN remap THEN remap
                  ELSE MergeInner(states, i, Tail(ids), remap, acc)
         IN MergeOuter(states, Tail(ids), r, acc)

EmptyMap == [x \in {} |-> 0]

MergeRemap(m, acc) == MergeOuter(m.states, Sorted(Keys(m)), EmptyMap, acc)

Remapped(remap, id) == IF id \in DOMAIN remap THEN remap[id] ELSE id

\* rewrite one transition: its target and, for Delimited, its start
RemapTransition(remap, t) ==
    << IF t[1].k = "Delimited"
       THEN [t[1] EXCEPT !.start = Remapped(remap, t[1].start)]
       ELSE t[1],
       Remapped(remap, t[2]) >>

Merge(m, acc) ==
    LET remap == MergeRemap(m, acc)
    IN [initial |-> Remapped(remap, m.initial),
        states |-> [id \in Keys(m) |->
                       [i \in 1..Len(m.states[id]) |->
                           RemapTransition(remap, m.states[id][i])]]]

\* one call of optimize
optimize(m, acc) == Merge(Dedupe(Prune(Inline(Collapse(m, acc), acc))), acc)

(***************************************************************************)
(* normalize: remap the ids to 0..N-1 in ascending id order.               *)
(***************************************************************************)
\* id_map without the renumbering: every id is kept
id_mapKeep(m) == [old \in Keys(m) |-> old]

\* id_map with the ids numbered from the largest down
id_mapDescending(m) ==
    LET ids == Sorted(Keys(m))
    IN [old \in Keys(m) |-> Len(ids) - (CHOOSE new \in 1..Len(ids) : ids[new] = old)]

id_map(m) ==
    LET ids == Sorted(Keys(m))
    IN [old \in Keys(m) |-> (CHOOSE new \in 1..Len(ids) : ids[new] = old) - 1]

\* normalize with Delimited.start left as it was
normalizeKeepStart(m) ==
    LET map == id_map(m)
    IN [initial |-> map[m.initial],
        states |-> [new_id \in { map[old] : old \in Keys(m) } |->
                       LET old_id == CHOOSE old \in Keys(m) : map[old] = new_id
                       IN [i \in 1..Len(m.states[old_id]) |->
                              << m.states[old_id][i][1], map[m.states[old_id][i][2]] >>]]]

normalize(m) ==
    LET map == id_map(m)
    IN [initial |-> map[m.initial],
        states |-> [new_id \in { map[old] : old \in Keys(m) } |->
                       LET old_id == CHOOSE old \in Keys(m) : map[old] = new_id
                       IN [i \in 1..Len(m.states[old_id]) |->
                              LET t == m.states[old_id][i]
                              IN << IF t[1].k = "Delimited"
                                    THEN [t[1] EXCEPT !.start = map[t[1].start]]
                                    ELSE t[1],
                                    map[t[2]] >>]]]

\* Construct without the Epsilon edge from the last state into ACCEPT
ConstructNoAccept(q, acc, ids) ==
    LET b == parse_query_ast(MachineNew(acc, ids), q)
    IN [initial |-> b.start, states |-> b.states]

\* compile_query up to the point where optimization starts
Construct(q, acc, ids) ==
    LET b == parse_query_ast(MachineNew(acc, ids), q)
    IN [initial |-> b.start,
        states |-> add_transition(b.states, b.end, acc, Epsilon)]

RECURSIVE OptimizeTimes(_, _, _)
OptimizeTimes(m, acc, n) == IF n = 0 THEN m ELSE OptimizeTimes(optimize(m, acc), acc, n - 1)

\* compile_query
compile_query(q, acc, ids) ==
    normalize(OptimizeTimes(Construct(q, acc, ids), acc, OptimizeIterations))

(***************************************************************************)
(* Source AST (parser.rs, enum Ast): a node is a Token or a Delimited      *)
(* group with its opener ty, its closer cp ("None" at end of file) and its *)
(* content.                                                                *)
(***************************************************************************)
AstToken(ty) == [k |-> "Token", ty |-> ty, cp |-> "", content |-> << >>]

AstDelimited(op, cp, content) == [k |-> "Delimited", ty |-> op, cp |-> cp, content |-> content]

\* the token types that are StringLiteral(c); every other type is an identifier
StringLiterals == { "'x'", "'y'" }

\* Regex::is_match for the two patterns of the model: x matches the literal
\* 'x' only, the pattern . matches every literal
is_match(re, c) == (re = "x" /\ c = "'x'") \/ (re = "." /\ c \in StringLiterals)

(***************************************************************************)
(* The matcher: the NFA simulation over a node list.  A configuration is   *)
(* <<input_pos, state>>.                                                   *)
(***************************************************************************)
NoMatch == -1

RECURSIVE ast_match(_, _, _)
RECURSIVE Explore(_, _, _, _)

\* the configurations one transition adds for the configuration <<pos, s>>
\* DelimitedMatches with the closer of the node compared with the closer of the edge
DelimitedMatchesCloser(m, matcher, node) ==
    /\ node.k = "Delimited"
    /\ node.ty = matcher.ty
    /\ node.cp = matcher.cp
    /\ ast_match(m, matcher.start, node.content) # NoMatch

\* a Delimited edge: the opener type is compared and the nested run decides
DelimitedMatches(m, matcher, node) ==
    /\ node.k = "Delimited"
    /\ node.ty = matcher.ty
    /\ ast_match(m, matcher.start, node.content) # NoMatch

\* EndStep taken at every position
EndStepAnywhere(input, pos, target) == { << pos + 1, target >> }

\* an End edge: taken when the position is the length of the list
EndStep(input, pos, target) ==
    IF pos = Len(input) THEN { << pos + 1, target >> } ELSE {}

TransitionNext(m, input, pos, t) ==
    LET matcher == t[1]
        target == t[2]
        here == pos < Len(input)
    IN CASE matcher.k = "Accept" -> {}
         [] matcher.k = "Epsilon" -> { << pos, target >> }
         [] matcher.k = "Any" -> IF here THEN { << pos + 1, target >> } ELSE {}
         [] matcher.k = "End" -> EndStep(input, pos, target)
         [] matcher.k = "Token" ->
               IF here /\ input[pos + 1].k = "Token" /\ input[pos + 1].ty = matcher.ty
               THEN { << pos + 1, target >> } ELSE {}
         [] matcher.k = "Regex" ->
               IF here /\ input[pos + 1].k = "Token"
                       /\ input[pos + 1].ty \in StringLiterals
                       /\ is_match(matcher.ty, input[pos + 1].ty)
               THEN { << pos + 1, target >> } ELSE {}
         [] matcher.k = "Delimited" ->
               IF here /\ DelimitedMatches(m, matcher, input[pos + 1])
               THEN { << pos + 1, target >> } ELSE {}

\* every configuration the simulation visits, starting from the frontier
Explore(m, input, seen, frontier) ==
    LET fresh == frontier \ seen
    IN IF fresh = {} THEN seen
       ELSE Explore(m, input, seen \cup fresh,
                    UNION { UNION { TransitionNext(m, input, c[1], m.states[c[2]][i]) :
                                      i \in 1..Len(m.states[c[2]]) } : c \in fresh })

\* the candidate lengths: positions at which an Accept edge is met
Candidates(m, start, input) ==
    { c[1] : c \in { d \in Explore(m, input, {}, { << 0, start >> }) :
                       \E i \in 1..Len(m.states[d[2]]) : m.states[d[2]][i][1].k = "Accept" } }

\* Longest with the first candidate kept instead of the longest
Shortest(S) == IF S = {} THEN NoMatch ELSE SetMin(S)

\* the result over the candidates: the longest candidate length
Longest(S) == IF S = {} THEN NoMatch ELSE SetMax(S)

\* the result of one simulation: the longest candidate length, or NoMatch
ast_match(m, start, input) == Longest(Candidates(m, start, input))

\* potential_matches without the starts inside Delimited nodes
potential_matchesTop(input) == [i \in 1..Len(input) |-> SubSeq(input, i, Len(input))]

RECURSIVE potential_matches(_)
\* Query::potential_matches: every suffix of the list, then those of the
\* content of each Delimited node, in order
potential_matches(input) ==
    [i \in 1..Len(input) |-> SubSeq(input, i, Len(input))]
        \o Concat([i \in 1..Len(input) |->
                      IF input[i].k = "Delimited" THEN potential_matches(input[i].content)
                      ELSE << >>])

\* the Match of one potential start; none is encoded as the empty sequence of matches
MatchAt(m, tts) ==
    LET n == ast_match(m, m.initial, tts)
    IN IF n = NoMatch THEN << >> ELSE << SubSeq(tts, 1, Min(n, Len(tts))) >>

\* Query::matches: one simulation per potential start
matches(m, input) ==
    LET starts == potential_matches(input)
    IN Concat([i \in 1..Len(starts) |-> MatchAt(m, starts[i])])

(***************************************************************************)
(* The source parser (parser.rs).  A StandardToken is a record with its    *)
(* kind, its text as a sequence of characters and its span; an Options     *)
(* value is a record with block_openers, block_closers (sets of texts) and *)
(* type_parameter_parsing.  An Ast node is a record: a Token node holds    *)
(* its token in op; a Delimited node holds op, cp (NoToken for None) and   *)
(* content.                                                                *)
(***************************************************************************)
StandardToken(kind, s, lo, hi) == [k |-> kind, s |-> s, lo |-> lo, hi |-> hi]

Symbol(s, lo, hi) == StandardToken("Symbol", s, lo, hi)

NoToken == StandardToken("None", << >>, 0, 0)

NodeToken(token) == [k |-> "Token", op |-> token, cp |-> NoToken, content |-> << >>]

NodeDelimited(op, cp, content) == [k |-> "Delimited", op |-> op, cp |-> cp, content |-> content]

is_open_paren(o, c) == c \in o.block_openers

\* is_close_paren that knows no closer
is_close_parenNever(o, c) == FALSE

\* is_close_paren that takes an opener for a closer as well
is_close_parenOpeners(o, c) == c \in o.block_closers \cup o.block_openers

is_close_paren(o, c) == c \in o.block_closers

is_open_type_param(c, inside_type_param) == c = << "<" >> /\ inside_type_param

is_close_type_param(c, inside_type_param) == c = << ">" >> /\ inside_type_param

last_is_identifier(res) == res = << >> \/ (res[Len(res)].k = "Token" /\ res[Len(res)].op.k = "Identifier")

(***************************************************************************)
(* MultiPeekPutBackN (multipeek_putbackn.rs): buf holds the items put back *)
(* or peeked followed by those the inner iterator still has; index is the  *)
(* peeking cursor.                                                         *)
(***************************************************************************)
multipeek_put_back_n(items) == [buf |-> items, index |-> 0]

reset_peek(it) == [it EXCEPT !.index = 0]

put_back(it, x) == [buf |-> << x >> \o it.buf, index |-> 0]

\* peek: the item under the cursor, and the cursor advanced when there is one
peek(it) ==
    IF it.index < Len(it.buf)
    THEN [some |-> TRUE, item |-> it.buf[it.index + 1],
          it |-> [it EXCEPT !.index = it.index + 1]]
    ELSE [some |-> FALSE, item |-> NoToken, it |-> it]

\* next: the cursor is reset and the front item is taken
next(it) ==
    IF it.buf # << >>
    THEN [some |-> TRUE, item |-> Head(it.buf), it |-> [buf |-> Tail(it.buf), index |-> 0]]
    ELSE [some |-> FALSE, item |-> NoToken, it |-> [buf |-> << >>, index |-> 0]]

RECURSIVE put_back_all(_, _)
\* for sym in syms.into_iter().rev() { iter.put_back(sym) }
put_back_all(it, syms) ==
    IF syms = << >> THEN it
    ELSE put_back_all(put_back(it, syms[Len(syms)]), SubSeq(syms, 1, Len(syms) - 1))

RECURSIVE split_to_symbolsSameSpan(_, _, _, _)
\* split_to_symbols with the span left where it was after a split character
split_to_symbolsSameSpan(o, s, lo, hi) ==
    IF s = << >> THEN << >>
    ELSE IF \/ is_open_paren(o, << Head(s) >>)
            \/ is_close_paren(o, << Head(s) >>)
            \/ Head(s) = "<"
            \/ Head(s) = ">"
         THEN << Symbol(<< Head(s) >>, lo, lo) >> \o split_to_symbolsSameSpan(o, Tail(s), lo, hi)
         ELSE << Symbol(s, lo, hi) >>

RECURSIVE split_to_symbols(_, _, _, _)
\* one Symbol per leading paren, < or > character, then one for what is left
split_to_symbols(o, s, lo, hi) ==
    IF s = << >> THEN << >>
    ELSE IF \/ is_open_paren(o, << Head(s) >>)
            \/ is_close_paren(o, << Head(s) >>)
            \/ Head(s) = "<"
            \/ Head(s) = ">"
         THEN << Symbol(<< Head(s) >>, lo, lo) >> \o split_to_symbols(o, Tail(s), lo + 1, hi)
         ELSE << Symbol(s, lo, hi) >>

RECURSIVE type_params_chars(_, _, _)
\* the loop over the characters of one peeked Symbol: the depth after them,
\* or the answer the loop returns ("yes", "no")
type_params_chars(o, s, depth) ==
    IF s = << >> THEN [answer |-> "more", depth |-> depth]
    ELSE IF Head(s) = "<" THEN type_params_chars(o, Tail(s), depth + 1)
    ELSE IF Head(s) = ">"
         THEN IF depth - 1 = 0 THEN [answer |-> "yes", depth |-> 0]
              ELSE type_params_chars(o, Tail(s), depth - 1)
    ELSE IF is_open_paren(o, << Head(s) >>) THEN type_params_chars(o, Tail(s), depth + 1)
    ELSE IF is_close_paren(o, << Head(s) >>)
         THEN IF depth - 1 = 0 THEN [answer |-> "no", depth |-> 0]
              ELSE type_params_chars(o, Tail(s), depth - 1)
    ELSE IF Head(s) \in { ",", ".", ":", ";", "?", "&", "|" }
         THEN type_params_chars(o, Tail(s), depth)
    ELSE [answer |-> "no", depth |-> depth]

RECURSIVE type_params_loop(_, _, _)
type_params_loop(o, it, depth) ==
    LET p == peek(it)
    IN IF ~ p.some THEN FALSE
       ELSE IF p.item.k = "Symbol"
            THEN LET r == type_params_chars(o, p.item.s, depth)
                 IN IF r.answer = "more" THEN type_params_loop(o, p.it, r.depth)
                    ELSE r.answer = "yes"
       ELSE IF p.item.k = "Identifier" THEN type_params_loop(o, p.it, depth)
       ELSE FALSE

\* peek_is_type_params: whether the tokens ahead close the < at depth 1
peek_is_type_params(o, it) == type_params_loop(o, it, 1)

RECURSIVE parse(_, _, _, _, _)
\* parse: res is the list built so far; the result holds the list, the
\* iterator as the call leaves it, and whether an assert! failed
parse(o, it, recur, inside_type_param, res) ==
    LET p == peek(it)
        sym == p.some /\ p.item.k = "Symbol"
        syms == split_to_symbols(o, p.item.s, p.item.lo, p.item.hi)
    IN IF sym /\ recur /\ (is_close_paren(o, p.item.s)
                             \/ is_close_type_param(p.item.s, inside_type_param))
       THEN [res |-> res, it |-> p.it, panic |-> FALSE]
       ELSE IF sym /\ inside_type_param /\ Len(p.item.s) > 1 /\ Len(syms) > 1
       THEN LET n == next(p.it)
            IN IF ~ n.some THEN [res |-> res, it |-> n.it, panic |-> TRUE]
               ELSE parse(o, put_back_all(n.it, syms), recur, inside_type_param, res)
       ELSE
         LET n == next(p.it)
             token == n.item
         IN IF ~ n.some THEN [res |-> res, it |-> n.it, panic |-> FALSE]
            ELSE IF token.k = "Symbol"
                    /\ (is_open_paren(o, token.s)
                          \/ is_open_type_param(token.s, inside_type_param))
            THEN LET inner == parse(o, n.it, TRUE, inside_type_param, << >>)
                     cp == next(inner.it)
                 IN IF inner.panic THEN inner
                    ELSE parse(o, cp.it, recur, inside_type_param,
                               Append(res, NodeDelimited(token, cp.item, inner.res)))
            ELSE IF token.k = "Symbol" /\ token.s = << "<", ">" >>
                    /\ o.type_parameter_parsing /\ last_is_identifier(res)
            THEN parse(o, n.it, recur, inside_type_param,
                       Append(res, NodeDelimited(Symbol(<< "<" >>, token.lo, token.lo),
                                                 Symbol(<< ">" >>, token.hi, token.hi),
                                                 << >>)))
            ELSE IF token.k = "Symbol" /\ token.s = << "<" >> /\ o.type_parameter_parsing
            THEN IF last_is_identifier(res) /\ peek_is_type_params(o, n.it)
                 THEN LET inner == parse(o, reset_peek(n.it), TRUE, TRUE, << >>)
                          cp == next(inner.it)
                      IN IF inner.panic THEN inner
                         ELSE parse(o, cp.it, recur, inside_type_param,
                                    Append(res, NodeDelimited(token, cp.item, inner.res)))
                 ELSE parse(o, reset_peek(n.it), recur, inside_type_param,
                            Append(res, NodeToken(token)))
            ELSE parse(o, n.it, recur, inside_type_param, Append(res, NodeToken(token)))

\* parse_file after tokenize: parse(options, tokens, false, false)
parse_tokens(o, tokens) == parse(o, multipeek_put_back_n(tokens), FALSE, FALSE, << >>)

(***************************************************************************)
(* The query parser (parser.rs, parse_query_ast).  A QueryToken is a        *)
(* Standard token or a Special one; k names the token type or the special   *)
(* token, list holds the tokens of a Nested.  A ParsedAstMatcher holds its  *)
(* variant in k, the token of a Token or the opener of a Delimited in op,   *)
(* the closer in cp, and in sub the boxed matcher(s), the list of a Nested  *)
(* or the content of a Delimited.                                          *)
(***************************************************************************)
QueryToken(k, s, lo, hi, list) == [k |-> k, s |-> s, lo |-> lo, hi |-> hi, list |-> list]

\* QueryTokenType::Standard(ty) with the span of the token
Standard(t) == QueryToken(t.k, t.s, t.lo, t.hi, << >>)

RECURSIVE StandardAll(_)
StandardAll(syms) ==
    IF syms = << >> THEN << >> ELSE << Standard(Head(syms)) >> \o StandardAll(Tail(syms))

is_standard(t) == t.k \in { "Identifier", "Integer", "Float", "StringLiteral", "Symbol" }

\* TryFrom<QueryToken> for StandardToken: a Special token is an error
try_into(t) == StandardToken(t.k, t.s, t.lo, t.hi)

ParsedAstMatcher(k, op, cp, sub) == [k |-> k, op |-> op, cp |-> cp, sub |-> sub]

last_matcher_is_identifier(res) ==
    res = << >> \/ (res[Len(res)].k = "Token" /\ res[Len(res)].op.k = "Identifier")

RECURSIVE type_params_loop_query(_, _, _)
type_params_loop_query(o, it, depth) ==
    LET p == peek(it)
    IN IF ~ p.some THEN FALSE
       ELSE IF p.item.k = "Symbol"
            THEN LET r == type_params_chars(o, p.item.s, depth)
                 IN IF r.answer = "more" THEN type_params_loop_query(o, p.it, r.depth)
                    ELSE r.answer = "yes"
       ELSE IF p.item.k = "Identifier" THEN type_params_loop_query(o, p.it, depth)
       ELSE IF ~ is_standard(p.item) THEN type_params_loop_query(o, p.it, depth)
       ELSE FALSE

peek_is_type_params_query(o, it) == type_params_loop_query(o, it, 1)

\* the left operand of an Or whose group has parsed the list res so far
or_prev(res) ==
    IF Len(res) <= 1
    THEN (IF res = << >> THEN ParsedAstMatcher("Any", NoToken, NoToken, << >>) ELSE res[1])
    ELSE ParsedAstMatcher("Nested", NoToken, NoToken, res)

RECURSIVE parser_parse_query_ast(_, _, _, _, _)
\* parse_query_ast of parser.rs: res is the list built so far; the result
\* holds the list, the iterator as the call leaves it, and whether an
\* assert! or expect failed
parser_parse_query_ast(o, it, recur, inside_type_param, res) ==
    LET p == peek(it)
        sym == p.some /\ p.item.k = "Symbol"
        syms == split_to_symbols(o, p.item.s, p.item.lo, p.item.hi)
    IN IF sym /\ recur /\ (is_close_paren(o, p.item.s)
                             \/ is_close_type_param(p.item.s, inside_type_param))
       THEN [res |-> res, it |-> p.it, panic |-> FALSE]
       ELSE IF sym /\ inside_type_param /\ Len(p.item.s) > 1 /\ Len(syms) > 1
       THEN LET n == next(p.it)
            IN IF ~ n.some THEN [res |-> res, it |-> n.it, panic |-> TRUE]
               ELSE parser_parse_query_ast(o, put_back_all(n.it, StandardAll(syms)), recur,
                                           inside_type_param, res)
       ELSE
         LET n == next(p.it)
             token == n.item
             unary(k) ==
                 Append(SubSeq(res, 1, Len(res) - 1),
                        ParsedAstMatcher(k, NoToken, NoToken,
                            << IF res = << >>
                               THEN ParsedAstMatcher("Any", NoToken, NoToken, << >>)
                               ELSE res[Len(res)] >>))
             group(inner, cp) ==
                 IF inner.panic \/ (cp.some /\ ~ is_standard(cp.item))
                 THEN [res |-> res, it |-> cp.it, panic |-> TRUE]
                 ELSE parser_parse_query_ast(o, cp.it, recur, inside_type_param,
                          Append(res, ParsedAstMatcher("Delimited", try_into(token),
                                     IF cp.some THEN try_into(cp.item) ELSE NoToken,
                                     inner.res)))
         IN IF ~ n.some THEN [res |-> res, it |-> n.it, panic |-> FALSE]
            ELSE IF token.k = "Symbol"
                    /\ (is_open_paren(o, token.s)
                          \/ is_open_type_param(token.s, inside_type_param))
            THEN LET inner == parser_parse_query_ast(o, n.it, TRUE, inside_type_param, << >>)
                 IN group(inner, next(inner.it))
            ELSE IF token.k = "Symbol" /\ token.s = << "<", ">" >>
                    /\ o.type_parameter_parsing /\ last_matcher_is_identifier(res)
            THEN parser_parse_query_ast(o, n.it, recur, inside_type_param,
                     Append(res, ParsedAstMatcher("Delimited",
                                     Symbol(<< "<" >>, token.lo, token.lo),
                                     Symbol(<< ">" >>, token.hi, token.hi), << >>)))
            ELSE IF token.k = "Symbol" /\ token.s = << "<" >> /\ o.type_parameter_parsing
            THEN IF last_matcher_is_identifier(res) /\ peek_is_type_params_query(o, n.it)
                 THEN LET inner == parser_parse_query_ast(o, reset_peek(n.it), TRUE, TRUE, << >>)
                      IN group(inner, next(inner.it))
                 ELSE parser_parse_query_ast(o, reset_peek(n.it), recur, inside_type_param,
                          Append(res, ParsedAstMatcher("Token", try_into(token), NoToken, << >>)))
            ELSE IF is_standard(token)
            THEN parser_parse_query_ast(o, n.it, recur, inside_type_param,
                     Append(res, ParsedAstMatcher("Token", try_into(token), NoToken, << >>)))
            ELSE IF token.k \in { "Any", "End", "Regex" }
            THEN parser_parse_query_ast(o, n.it, recur, inside_type_param,
                     Append(res, ParsedAstMatcher(token.k, NoToken, NoToken, << >>)))
            ELSE IF token.k \in { "Plus", "QuestionMark", "Star" }
            THEN parser_parse_query_ast(o, n.it, recur, inside_type_param, unary(token.k))
            ELSE IF token.k = "Or"
            THEN LET inner == parser_parse_query_ast(o, n.it, TRUE, inside_type_param, << >>)
                 IN IF inner.panic THEN inner
                    ELSE parser_parse_query_ast(o, inner.it, recur, inside_type_param,
                             << ParsedAstMatcher("Or", NoToken, NoToken,
                                    << or_prev(res),
                                       ParsedAstMatcher("Nested", NoToken, NoToken, inner.res) >>) >>)
            ELSE \* Nested(list): the list is parsed on an iterator of its own
                 LET inner == parser_parse_query_ast(o, multipeek_put_back_n(token.list), FALSE,
                                                     inside_type_param, << >>)
                 IN IF inner.panic THEN [res |-> res, it |-> n.it, panic |-> TRUE]
                    ELSE parser_parse_query_ast(o, n.it, recur, inside_type_param,
                             Append(res, ParsedAstMatcher("Nested", NoToken, NoToken, inner.res)))

\* parse_query after tokenize_query: parse_query_ast(options, tokens, false, false)
parse_query(o, tokens) ==
    parser_parse_query_ast(o, multipeek_put_back_n(tokens), FALSE, FALSE, << >>)

\* Options::default: the parens of the model's alphabet, no type parameters
DefaultOptions ==
    [block_openers |-> { << "(" >> }, block_closers |-> { << ")" >> },
     type_parameter_parsing |-> FALSE]

(***************************************************************************)
(* PeekableStringIterator (psi.rs) over the text c, a sequence of one-byte *)
(* characters: pos is the number of characters taken, lo and hi are the    *)
(* current span.  NoChar is the None of Option<char>.                      *)
(***************************************************************************)
NoChar == ""

PeekableStringIterator_new == [pos |-> 0, lo |-> 0, hi |-> 0]

psi_peek(c, it) == IF it.pos < Len(c) THEN c[it.pos + 1] ELSE NoChar

\* Iterator::next: the span is extended to the character taken
psi_next(c, it) ==
    IF it.pos < Len(c) THEN [pos |-> it.pos + 1, lo |-> it.lo, hi |-> it.pos] ELSE it

\* next_new_span: next, then the span restarts at the character taken
next_new_span(c, it) ==
    IF it.pos < Len(c) THEN [pos |-> it.pos + 1, lo |-> it.pos, hi |-> it.pos] ELSE it

starts_with(c, it, s) ==
    it.pos + Len(s) <= Len(c) /\ SubSeq(c, it.pos + 1, it.pos + Len(s)) = s

peek_n(c, it, n) == SubSeq(c, it.pos + 1, Min(it.pos + n, Len(c)))

(***************************************************************************)
(* Options::default as the tokenizer reads it; regex_delimiters is empty,  *)
(* so no regex literal is read.                                            *)
(***************************************************************************)
\* (the third string character, the backquote, is outside the model's characters)
string_characters == { << "\"" >>, << "'" >> }

single_line_comments == { << "/", "/" >> }

multi_line_comments == { << << "/", "*" >>, << "*", "/" >> >> }

ranges == TRUE

Digits == { "0", "1", "2", "3", "4", "5", "6", "7", "8", "9" }

HexLetters == { "a", "b", "c", "d", "e", "f", "A", "B", "C", "D", "E", "F" }

\* [\p{ID_Start}_] and \p{ID_Continue} on the characters of the model
identifier_regex_start(ch) == ch \in HexLetters \cup { "x", "q", "_" }

identifier_regex_continue(ch) == identifier_regex_start(ch) \/ ch \in Digits

\* the closures given to collect_while_map: what they answer for character ch
\* with the iterator at it; first marks the first call
collect_f(kind, ch, c, it, first) ==
    IF kind = "line" THEN ch # "\n"
    ELSE IF kind = "identifier"
         THEN IF first THEN identifier_regex_start(ch) ELSE identifier_regex_continue(ch)
    ELSE \/ ch \in Digits \cup { "_" }
         \/ ch = "." /\ ranges /\ ~ starts_with(c, it, << ".", "." >>)
         \/ ch \in HexLetters /\ kind = "radix16"
         \/ ch = "e"

RECURSIVE collect_loop(_, _, _, _)
collect_loop(c, it, kind, acc) ==
    IF psi_peek(c, it) = NoChar \/ ~ collect_f(kind, psi_peek(c, it), c, it, FALSE)
    THEN [s |-> acc, it |-> it]
    ELSE collect_loop(c, psi_next(c, it), kind, Append(acc, psi_peek(c, it)))

\* collect_while_map: one character is always taken, kept only if f accepts it
collect_while_map(c, it, kind) ==
    IF psi_peek(c, it) = NoChar THEN [s |-> << >>, it |-> it]
    ELSE collect_loop(c, next_new_span(c, it), kind,
             IF collect_f(kind, psi_peek(c, it), c, next_new_span(c, it), TRUE)
             THEN << psi_peek(c, it) >> ELSE << >>)

flush_single_line(c, it) == collect_while_map(c, it, "line").it

RECURSIVE skip_until(_, _, _)
skip_until(c, it, end) ==
    IF starts_with(c, it, end) \/ it.pos >= Len(c) THEN it
    ELSE skip_until(c, psi_next(c, it), end)

RECURSIVE psi_next_n(_, _, _)
psi_next_n(c, it, n) == IF n = 0 THEN it ELSE psi_next_n(c, psi_next(c, it), n - 1)

flush_multi_line_comment(c, it, start, end) ==
    psi_next_n(c, skip_until(c, psi_next_n(c, it, Len(start)), end), Len(end))

\* char::to_digit: the value of a digit in the radix, NoValue if it is none
NoValue == -1

DigitChars ==
    << "0", "1", "2", "3", "4", "5", "6", "7", "8", "9", "a", "b", "c", "d", "e", "f" >>

UpperChars == << "A", "B", "C", "D", "E", "F" >>

to_digit(ch, radix) ==
    LET low == { i \in 1..Len(DigitChars) : DigitChars[i] = ch }
        up == { i \in 1..Len(UpperChars) : UpperChars[i] = ch }
        v == IF low # {} THEN (CHOOSE i \in low : TRUE) - 1
             ELSE IF up # {} THEN (CHOOSE i \in up : TRUE) + 9
             ELSE NoValue
    IN IF v # NoValue /\ v < radix THEN v ELSE NoValue

RECURSIVE DigitsValue(_, _, _)
DigitsValue(s, radix, acc) ==
    IF s = << >> THEN acc
    ELSE DigitsValue(Tail(s), radix, acc * radix + to_digit(Head(s), radix))

\* i128::from_str_radix on a text without sign: an error (NoValue) for the
\* empty text and for a digit that is none of the radix.  The texts of the
\* model are too short to leave the range of i128.
from_str_radix(s, radix) ==
    IF s = << >> \/ \E i \in 1..Len(s) : to_digit(s[i], radix) = NoValue THEN NoValue
    ELSE DigitsValue(s, radix, 0)

RECURSIVE take_while(_, _)
\* chars().take_while(|c| c is in S)
take_while(s, S) ==
    IF s = << >> \/ Head(s) \notin S THEN << >>
    ELSE << Head(s) >> \o take_while(Tail(s), S)

RECURSIVE Decimal(_, _)
\* the decimal m * 10^e in its shortest form
Decimal(m, e) ==
    IF m = 0 THEN [m |-> 0, e |-> 0]
    ELSE IF m % 10 = 0 THEN Decimal(m \div 10, e + 1)
    ELSE [m |-> m, e |-> e]

NoFloat == [m |-> NoValue, e |-> 0]

\* f64::from_str on a text without sign: digits, an optional . and digits, an
\* optional e and digits; a mantissa without digit, an e without digits and
\* anything left over are errors.  The value is kept as an exact decimal.
f64_from_str(s) ==
    LET ip == take_while(s, Digits)
        rest1 == SubSeq(s, Len(ip) + 1, Len(s))
        dot == rest1 # << >> /\ Head(rest1) = "."
        fp == IF dot THEN take_while(Tail(rest1), Digits) ELSE << >>
        rest2 == IF dot THEN SubSeq(rest1, Len(fp) + 2, Len(rest1)) ELSE rest1
        exp == rest2 # << >> /\ Head(rest2) \in { "e", "E" }
        ep == IF exp THEN take_while(Tail(rest2), Digits) ELSE << >>
        rest3 == IF exp THEN SubSeq(rest2, Len(ep) + 2, Len(rest2)) ELSE rest2
    IN IF ip \o fp = << >> \/ (exp /\ ep = << >>) \/ rest3 # << >> THEN NoFloat
       ELSE Decimal(DigitsValue(ip \o fp, 10, 0), DigitsValue(ep, 10, 0) - Len(fp))

\* the first of the values that is not an error, the default if all are
or_else(values, default, none) ==
    IF \E i \in 1..Len(values) : values[i] # none
    THEN values[CHOOSE i \in 1..Len(values) :
                    values[i] # none /\ \A j \in 1..(i - 1) : values[j] = none]
    ELSE default

\* read_number: the token holds the characters kept, without the _ separators;
\* num is the value of the token
read_number(c, it) ==
    LET kind == IF peek_n(c, it, 2) = << "0", "b" >> THEN "radix2"
                ELSE IF peek_n(c, it, 2) = << "0", "x" >> THEN "radix16"
                ELSE "radix10"
        radix == IF kind = "radix2" THEN 2 ELSE IF kind = "radix16" THEN 16 ELSE 10
        r == collect_while_map(c, IF kind = "radix10" THEN it ELSE psi_next_n(c, it, 2), kind)
        digits == Retain(r.s, [i \in 1..Len(r.s) |-> r.s[i] # "_"])
        float == \E i \in 1..Len(digits) : digits[i] \in { ".", "e" }
        num == IF ~ float
               THEN [m |-> or_else(<< from_str_radix(digits, radix),
                                      from_str_radix(take_while(digits, Digits), radix) >>,
                                   0, NoValue),
                     e |-> 0]
               ELSE or_else(<< f64_from_str(digits),
                               f64_from_str(take_while(digits, Digits \cup { "." })),
                               f64_from_str(take_while(digits, Digits)) >>,
                            Decimal(0, 0), NoFloat)
    IN [token |-> QueryToken(IF float THEN "Float" ELSE "Integer", digits,
                             r.it.lo, r.it.hi, << >>),
        it |-> r.it,
        num |-> num]

RECURSIVE string_loop(_, _, _, _)
string_loop(c, it, str_end, acc) ==
    LET ch == psi_peek(c, it)
        it1 == psi_next(c, it)
    IN IF ch = NoChar \/ ch = str_end THEN [s |-> acc, it |-> it1]
       ELSE IF ch = "\\"
            THEN IF psi_peek(c, it1) = NoChar THEN string_loop(c, it1, str_end, acc)
                 ELSE string_loop(c, psi_next(c, it1), str_end,
                                  acc \o << "\\", psi_peek(c, it1) >>)
       ELSE string_loop(c, it1, str_end, Append(acc, ch))

read_string_content(c, it) == string_loop(c, next_new_span(c, it), psi_peek(c, it), << >>)

read_string(c, it) ==
    LET r == read_string_content(c, it)
    IN [token |-> QueryToken("StringLiteral", r.s, r.it.lo, r.it.hi, << >>), it |-> r.it]

read_identifier(o, c, it) ==
    LET r == collect_while_map(c, it, "identifier")
    IN [token |-> QueryToken(IF is_open_paren(o, r.s) \/ is_close_paren(o, r.s)
                             THEN "Symbol" ELSE "Identifier",
                             r.s, r.it.lo, r.it.hi, << >>),
        it |-> r.it]

read_paren(c, it) ==
    LET it1 == next_new_span(c, it)
    IN [token |-> QueryToken("Symbol", << psi_peek(c, it) >>, it1.lo, it1.hi, << >>), it |-> it1]

\* read_other that merges whether or not something was skipped
read_otherAlways(res, had_whitespace, c, it) ==
    LET it1 == next_new_span(c, it)
        merge == res # << >> /\ res[Len(res)].k = "Symbol"
        old == res[Len(res)]
    IN IF merge
       THEN [res |-> SubSeq(res, 1, Len(res) - 1),
             token |-> QueryToken("Symbol", Append(old.s, psi_peek(c, it)),
                                  Min(old.lo, it1.lo), IF old.hi > it1.hi THEN old.hi ELSE it1.hi,
                                  << >>),
             it |-> it1]
       ELSE [res |-> res,
             token |-> QueryToken("Symbol", << psi_peek(c, it) >>, it1.lo, it1.hi, << >>),
             it |-> it1]

\* read_other: the list without the Symbol merged into, and the token read
read_other(res, had_whitespace, c, it) ==
    LET it1 == next_new_span(c, it)
        merge == ~ had_whitespace /\ res # << >> /\ res[Len(res)].k = "Symbol"
        old == res[Len(res)]
    IN IF merge
       THEN [res |-> SubSeq(res, 1, Len(res) - 1),
             token |-> QueryToken("Symbol", Append(old.s, psi_peek(c, it)),
                                  Min(old.lo, it1.lo), IF old.hi > it1.hi THEN old.hi ELSE it1.hi,
                                  << >>),
             it |-> it1]
       ELSE [res |-> res,
             token |-> QueryToken("Symbol", << psi_peek(c, it) >>, it1.lo, it1.hi, << >>),
             it |-> it1]

\* the meta characters of read_query_command and their special tokens
query_commands ==
    [ch \in { ".", "*", "+", "|", "$" } |->
        IF ch = "." THEN "Any" ELSE IF ch = "*" THEN "Star" ELSE IF ch = "+" THEN "Plus"
        ELSE IF ch = "|" THEN "Or" ELSE "End"]

\* what a panicking call returns: no token list
Panicked(it) == [res |-> << >>, it |-> it, panic |-> TRUE, skipped |-> {}]

RECURSIVE tokenize_recur(_, _, _, _, _, _, _, _)
RECURSIVE read_query_command(_, _, _)
\* read_query_command after the backslash: the token, or the panic of expect,
\* panic! or assert_eq!
read_query_command(o, c, it) ==
    LET ch == psi_peek(c, it)
        it1 == psi_next(c, it)
    IN IF ch = NoChar THEN [token |-> NoToken, it |-> it, panic |-> TRUE]
       ELSE IF ch \in DOMAIN query_commands
       THEN [token |-> QueryToken(query_commands[ch], << >>, it1.lo, it1.hi, << >>),
             it |-> it1, panic |-> FALSE]
       ELSE IF ch = "\""
       THEN LET r == read_string_content(c, it)
            IN [token |-> QueryToken("Regex", r.s, r.it.lo, r.it.hi, << >>),
                it |-> r.it, panic |-> FALSE]
       ELSE IF ch = "("
       THEN LET inner == tokenize_recur(o, c, it1, TRUE, TRUE, << >>, FALSE, {})
                it2 == psi_next(c, inner.it)
            IN IF inner.panic \/ psi_peek(c, inner.it) # ")"
               THEN [token |-> NoToken, it |-> it2, panic |-> TRUE]
               ELSE [token |-> QueryToken("Nested", << >>, it2.lo, it2.hi, inner.res),
                     it |-> it2, panic |-> FALSE]
       ELSE [token |-> NoToken, it |-> it, panic |-> TRUE]

\* tokenize_recur: res and had_whitespace are the locals of the loop; skipped
\* collects the bytes taken as whitespace or as comment
tokenize_recur(o, c, it, recur, query_mode, res, had_whitespace, skipped) ==
    LET ch == psi_peek(c, it)
        push(r) == tokenize_recur(o, c, r.it, recur, query_mode, Append(res, r.token), FALSE, skipped)
        skip(it1) == tokenize_recur(o, c, it1, recur, query_mode, res, TRUE,
                                    skipped \cup (it.pos .. it1.pos - 1))
    IN IF ch = NoChar
       THEN [res |-> res, it |-> it, panic |-> FALSE, skipped |-> skipped]
       ELSE IF \E s \in single_line_comments : starts_with(c, it, s)
       THEN skip(flush_single_line(c, it))
       ELSE IF \E p \in multi_line_comments : starts_with(c, it, p[1])
       THEN LET p == CHOOSE p \in multi_line_comments : starts_with(c, it, p[1])
            IN skip(flush_multi_line_comment(c, it, p[1], p[2]))
       ELSE IF \E s \in string_characters : starts_with(c, it, s)
       THEN push(read_string(c, it))
       ELSE IF ch = "\\" /\ query_mode
       THEN LET it1 == next_new_span(c, it)
                r == read_query_command(o, c, it1)
            IN IF recur /\ psi_peek(c, it1) = ")"
               THEN [res |-> res, it |-> it1, panic |-> FALSE, skipped |-> skipped]
               ELSE IF r.panic THEN Panicked(r.it)
               ELSE push(r)
       ELSE IF ch \in { " ", "\t", "\n" }
       THEN skip(psi_next(c, it))
       ELSE IF identifier_regex_start(ch)
       THEN push(read_identifier(o, c, it))
       ELSE IF ch \in Digits
       THEN push(read_number(c, it))
       ELSE IF is_open_paren(o, << ch >>) \/ is_close_paren(o, << ch >>)
       THEN tokenize_recur(o, c, read_paren(c, it).it, recur, query_mode,
                           Append(res, read_paren(c, it).token), TRUE, skipped)
       ELSE LET r == read_other(res, had_whitespace, c, it)
            IN tokenize_recur(o, c, r.it, recur, query_mode, Append(r.res, r.token), FALSE, skipped)

\* tokenize: tokenize_recur(iter, options, false, false)
tokenize(o, c) == tokenize_recur(o, c, PeekableStringIterator_new, FALSE, FALSE, << >>, FALSE, {})

\* tokenize_query: tokenize_recur(iter, options, false, true)
tokenize_query(o, c) == tokenize_recur(o, c, PeekableStringIterator_new, FALSE, TRUE, << >>, FALSE, {})

\* the characters of the texts of the model
Chars == { "0", "x", " ", "/", "\n", "*", "\\", "(", ")", "\"" }

Texts == UNION { [1..n -> Chars] : n \in 0..MaxText }

\* the characters of the numeric literals of the model
NumberChars == { "0", "1", "2", "b", "x", "_", ".", "e" }

\* the literals: a digit, then up to MaxNumber - 1 characters
NumberTexts ==
    UNION { { << d >> \o t : d \in { "0", "1", "2" }, t \in [1..n -> NumberChars] } :
              n \in 0..(MaxNumber - 1) }

\* the Options values of the tokenizer: the default, and the default with a
\* block pair of words added (--block x x0, as --block do end)
LexOptionValues ==
    { DefaultOptions,
      [DefaultOptions EXCEPT !.block_openers = @ \cup { << "x" >> },
                             !.block_closers = @ \cup { << "x", "0" >> }] }

(***************************************************************************)
(* The token streams and Options values of the model.                      *)
(***************************************************************************)
\* the default parens or < > added as a block pair, type parameters on or off
OptionValues ==
    { [block_openers |-> { << "(" >> } \cup extra[1],
       block_closers |-> { << ")" >> } \cup extra[2],
       type_parameter_parsing |-> b] :
        extra \in { << {}, {} >>, << { << "<" >> }, { << ">" >> } >> }, b \in BOOLEAN }

\* kind and text of the tokens: a ( ) < > <> ,
TokenTexts ==
    { << "Identifier", << "a" >> >>,
      << "Symbol", << "(" >> >>,
      << "Symbol", << ")" >> >>,
      << "Symbol", << "<" >> >>,
      << "Symbol", << ">" >> >>,
      << "Symbol", << "<", ">" >> >>,
      << "Symbol", << "," >> >> }

RECURSIVE Spanned(_, _)
\* the tokens of a line whose first token starts at byte lo, one blank between tokens
Spanned(texts, lo) ==
    IF texts = << >> THEN << >>
    ELSE << StandardToken(Head(texts)[1], Head(texts)[2], lo, lo + Len(Head(texts)[2]) - 1) >>
         \o Spanned(Tail(texts), lo + Len(Head(texts)[2]) + 1)

Streams == { Spanned(texts, 0) : texts \in UNION { [1..n -> TokenTexts] : n \in 0..MaxTokens } }

\* kind, text and nested list of the query tokens: a ( ) < > \| \+ and the
\* groups \(a \| a\) and \(\| )\)
QueryTexts ==
    { << "Identifier", << "a" >>, << >> >>,
      << "Symbol", << "(" >>, << >> >>,
      << "Symbol", << ")" >>, << >> >>,
      << "Symbol", << "<" >>, << >> >>,
      << "Symbol", << ">" >>, << >> >>,
      << "Or", << >>, << >> >>,
      << "Plus", << >>, << >> >>,
      << "Nested", << >>,
         << << "Identifier", << "a" >>, << >> >>, << "Or", << >>, << >> >>,
            << "Identifier", << "a" >>, << >> >> >> >>,
      << "Nested", << >>,
         << << "Or", << >>, << >> >>, << "Symbol", << ")" >>, << >> >> >> >> }

RECURSIVE QueryWidth(_)
\* the bytes of a query token: its text, \ and a character, or \( list \)
QueryWidth(text) ==
    IF text[1] \in { "Identifier", "Symbol" } THEN Len(text[2])
    ELSE IF text[1] # "Nested" THEN 2
    ELSE 4 + Len(text[3])
           + (IF text[3] = << >> THEN 0
              ELSE QueryWidth(Head(text[3])) + QueryWidth(<< "Nested", << >>, Tail(text[3]) >>) - 4)

RECURSIVE QuerySpanned(_, _)
\* the tokens of a query whose first token starts at byte lo, one blank between tokens
QuerySpanned(texts, lo) ==
    IF texts = << >> THEN << >>
    ELSE << QueryToken(Head(texts)[1], Head(texts)[2], lo, lo + QueryWidth(Head(texts)) - 1,
                       QuerySpanned(Head(texts)[3], lo + 2)) >>
         \o QuerySpanned(Tail(texts), lo + QueryWidth(Head(texts)) + 1)

QueryStreams ==
    { QuerySpanned(texts, 0) : texts \in UNION { [1..n -> QueryTexts] : n \in 0..MaxTokens } }

(***************************************************************************)
(* The queries and the inputs of the model.  Every query is an AST that    *)
(* parse_query produces for some query text.                               *)
(***************************************************************************)
TokA == PToken("a")

TokB == PToken("b")

RECURSIVE Rep(_, _)
\* n copies of x
Rep(x, n) == IF n = 0 THEN << >> ELSE << x >> \o Rep(x, n - 1)

Leaves == { TokA, TokB, PAny }

Quantified(S) == { Plus(x) : x \in S } \cup { Star(x) : x \in S }
                     \cup { QuestionMark(x) : x \in S }

Groups ==
    { Nested(<< >>),
      Nested(<< TokA, TokB >>),
      Nested(<< Plus(TokA), TokB >>),
      Nested(<< Star(TokA), TokB >>),
      Nested(<< QuestionMark(TokA), TokB >>),
      Nested(<< Or(TokA, Nested(<< TokB >>)) >>),
      PDelimited("(", ")", << >>),
      PDelimited("(", ")", << TokA >>),
      PDelimited("(", ")", << Star(TokA) >>) }

Inner == Leaves \cup Quantified({ TokA, PAny }) \cup Groups

\* a b^(n-1) as the operand of an Or: one matcher alone, a Nested list otherwise
Alternative(head, n) ==
    IF n = 1 THEN head ELSE Nested(<< head >> \o Rep(TokB, n - 1))

\* x b .. b \| y b .. b with n tokens on each side
SuffixQueries ==
    { << Or(Alternative(h[1], n), Nested(<< h[2] >> \o Rep(TokB, n - 1))) >> :
        h \in { << TokA, TokA >>, << TokA, PAny >> }, n \in 1..MaxSuffix }

Queries ==
    { << m >> : m \in Inner \cup Quantified(Inner)
                       \cup Quantified(Quantified(Quantified({ TokA }))) }
    \cup SuffixQueries
    \cup { << >>,
           << TokA, TokB >>,
           << Star(PAny), TokA, TokB >>,
           << Star(TokA), Star(TokB) >>,
           << QuestionMark(TokA), Plus(TokB) >>,
           << TokA, PEnd >>,
           << PDelimited("(", ")", << PEnd >>) >>,
           << TokA, PDelimited("(", ")", << TokB, PEnd >>), TokA >>,
           << PDelimited("(", ")", << PDelimited("(", ")", << TokA >>) >>) >>,
           << Or(TokA, Nested(<< PDelimited("(", ")", << TokB, TokA >>) >>)) >>,
           << Or(PAny, Nested(<< >>)) >>,
           << Or(TokA, Nested(<< Or(TokB, Nested(<< PAny >>)) >>)) >>,
           << PDelimited("(", ")", << PDelimited("[", "]", << TokA >>) >>) >>,
           << PDelimited("[", "]", << PDelimited("(", ")", << TokA >>) >>) >>,
           << TokA, PDelimited("(", ")", << >>) >>,
           << PRegex("x") >>,
           << PRegex("."), TokA >> }

\* the queries compiled twice
DetQueries ==
    { << >>,
      << TokA >>,
      << Star(PAny), TokA, TokB >>,
      << Star(Nested(<< Plus(TokA), TokB >>)) >>,
      << Or(TokA, Nested(<< PDelimited("(", ")", << TokB, TokA >>) >>)) >>,
      << Or(Nested(<< TokA, TokB >>), Nested(<< TokA, TokB >>)) >>,
      << PDelimited("(", ")", << >>), QuestionMark(TokB) >> }

Nodes ==
    { AstToken("a"), AstToken("b"), AstToken("'x'"),
      AstDelimited("(", ")", << AstToken("a") >>) }

\* every node list of a given length
Lists(n) == [1..n -> Nodes]

\* parsed lines of the group examples: a (b) a and a (b a) a
GroupInputs ==
    { << AstToken("a"), AstDelimited("(", ")", << AstToken("b") >>), AstToken("a") >>,
      << AstToken("a"), AstDelimited("(", ")", << AstToken("b"), AstToken("a") >>),
         AstToken("a") >> }

\* parsed lines with groups whose closer is present, mismatched or absent:
\* ([a]), a ([b)], (a at the end of the file, (a], and a (b) b
CloserInputs ==
    { << AstDelimited("(", ")", << AstDelimited("[", "]", << AstToken("a") >>) >>) >>,
      << AstToken("a"),
         AstDelimited("(", "]", << AstDelimited("[", ")", << AstToken("b") >>) >>) >>,
      << AstDelimited("(", "None", << AstToken("a") >>) >>,
      << AstDelimited("(", "]", << AstToken("a") >>) >>,
      << AstToken("a"), AstDelimited("(", ")", << AstToken("b") >>), AstToken("b") >> }

Inputs == UNION { Lists(n) : n \in 0..MaxInput } \cup GroupInputs \cup CloserInputs

(***************************************************************************)
(* The state of the process.                                               *)
(***************************************************************************)
VARIABLES
    INDEX,      \* the shared counter behind index()
    ACCEPT,     \* ACCEPT.id, NoState until the lazy static is first used
    query,      \* the query AST given to compile_query
    pc,         \* the position of the compilation
    drawn,      \* the ids index() has returned to this compilation
    machine,    \* the Machine of this compilation
    raw,        \* the Machine as constructed, before any optimize call
    iter,       \* the number of completed optimize calls
    input,      \* the node list matched
    result,     \* the matches of the compiled machine on input
    resultRaw,  \* the matches of the unoptimized machine on input
    round,      \* 1 for the first compilation of the query, 2 for the second
    first,      \* the machine the first compilation returned
    others,     \* the number of ids drawn by other compilations
    walk,       \* main: the entries the directory walker yields, as outcomes
    visited,    \* main: the number of entries the loop has handled
    retval,     \* main: the exit status so far
    mainpc,     \* main: the position of main
    stream,     \* parse: the tokens of the source file
    options,    \* parse: the Options value
    parsed,     \* parse: what parse returned
    parsepc,    \* parse: the position of the parser run
    query_tokens,   \* parse_query: the tokens of the query
    query_options,  \* parse_query: the Options value
    parsed_query,   \* parse_query: what parse_query_ast returned
    querypc,        \* parse_query: the position of the query parser run
    content,    \* tokenize: the characters of the text
    is_query,   \* tokenize: whether the text is a query
    lexed,      \* tokenize: the tokens returned, or the panic
    lexpc       \* tokenize: the position of the tokenizer run

mainVars == << walk, visited, retval, mainpc >>

parseVars == << stream, options, parsed, parsepc >>

queryVars == << query_tokens, query_options, parsed_query, querypc >>

lexVars == << content, is_query, lexed, lexpc >>

\* the variables outside the compilation and the matching
frontVars == << mainVars, parseVars, queryVars, lexVars >>

vars == << INDEX, ACCEPT, query, pc, drawn, machine, raw, iter, input, result,
           resultRaw, round, first, others, frontVars >>

\* main has not started and walks nothing
MainIdle == walk = << >> /\ visited = 0 /\ retval = 1 /\ mainpc = "idle"

\* no compilation and no matching take place
CompileIdle ==
    /\ INDEX = 0
    /\ ACCEPT = NoState
    /\ query = << >>
    /\ pc = "idle"
    /\ drawn = << >>
    /\ machine = [initial |-> 0, states |-> EmptyMap]
    /\ raw = [initial |-> 0, states |-> EmptyMap]
    /\ iter = 0
    /\ input = << >>
    /\ result = << >>
    /\ resultRaw = << >>
    /\ round = 1
    /\ first = [initial |-> 0, states |-> EmptyMap]
    /\ others = 0

compileVars == << INDEX, ACCEPT, query, pc, drawn, machine, raw, iter, input, result,
                  resultRaw, round, first, others >>

\* no source file is parsed
ParseIdle ==
    /\ stream = << >>
    /\ options = DefaultOptions
    /\ parsed = [res |-> << >>, it |-> multipeek_put_back_n(<< >>), panic |-> FALSE]
    /\ parsepc = "idle"

\* no query is parsed
QueryIdle ==
    /\ query_tokens = << >>
    /\ query_options = DefaultOptions
    /\ parsed_query = [res |-> << >>, it |-> multipeek_put_back_n(<< >>), panic |-> FALSE]
    /\ querypc = "idle"

\* no text is tokenized
LexIdle ==
    /\ content = << >>
    /\ is_query = FALSE
    /\ lexed = [res |-> << >>, it |-> PeekableStringIterator_new, panic |-> FALSE, skipped |-> {}]
    /\ lexpc = "idle"

NoMachine == [initial |-> 0, states |-> EmptyMap]

InitWith(Q, B) ==
    /\ \E base \in B :
          \* no compilation yet, or earlier ones that drew ACCEPT.id and base ids
          /\ INDEX = IF base = 0 THEN 0 ELSE base + 1
          /\ ACCEPT = IF base = 0 THEN NoState ELSE 0
    /\ query \in Q
    /\ pc = "new"
    /\ drawn = << >>
    /\ machine = NoMachine
    /\ raw = NoMachine
    /\ iter = 0
    /\ input = << >>
    /\ result = << >>
    /\ resultRaw = << >>
    /\ round = 1
    /\ first = NoMachine
    /\ others = 0
    /\ MainIdle
    /\ ParseIdle
    /\ QueryIdle
    /\ LexIdle

Init == InitWith(Queries, { 0 })

InitDet == InitWith(DetQueries, 0..MaxBase)

\* Machine::new: the first use of ACCEPT draws its id
Machine_new ==
    /\ pc = "new"
    /\ ACCEPT' = IF ACCEPT = NoState THEN INDEX ELSE ACCEPT
    /\ INDEX' = IF ACCEPT = NoState THEN INDEX + 1 ELSE INDEX
    /\ machine' = [initial |-> 0, states |-> MachineNew(ACCEPT', << >>).states]
    /\ drawn' = << >>
    /\ pc' = "state"
    /\ UNCHANGED << query, raw, iter, input, result, resultRaw, round, first, others >>
    /\ UNCHANGED frontVars

\* State::new: one index() call of the construction
State_new ==
    /\ pc = "state"
    /\ Len(drawn) < NumStatesQuery(query)
    /\ drawn' = Append(drawn, INDEX)
    /\ INDEX' = INDEX + 1
    /\ UNCHANGED << ACCEPT, query, pc, machine, raw, iter, input, result, resultRaw,
                    round, first, others >>
    /\ UNCHANGED frontVars

\* compile_query up to the optimize loop: the construction over the drawn ids,
\* the initial state and the Epsilon edge into ACCEPT
Compile_construct ==
    /\ pc = "state"
    /\ Len(drawn) = NumStatesQuery(query)
    /\ machine' = Construct(query, ACCEPT, drawn)
    /\ raw' = machine'
    /\ iter' = 0
    /\ pc' = "collapse"
    /\ UNCHANGED << INDEX, ACCEPT, query, drawn, input, result, resultRaw, round,
                    first, others >>
    /\ UNCHANGED frontVars

Pass(from, to, m) ==
    /\ pc = from
    /\ machine' = m
    /\ pc' = to
    /\ UNCHANGED << INDEX, ACCEPT, query, drawn, raw, input, result, resultRaw,
                    round, first, others >>
    /\ UNCHANGED frontVars

Optimize_collapse == Pass("collapse", "inline", Collapse(machine, ACCEPT)) /\ UNCHANGED iter

Optimize_inline == Pass("inline", "prune", Inline(machine, ACCEPT)) /\ UNCHANGED iter

Optimize_prune == Pass("prune", "dedupe", Prune(machine)) /\ UNCHANGED iter

Optimize_dedupe == Pass("dedupe", "merge", Dedupe(machine)) /\ UNCHANGED iter

\* the last pass of one optimize call; the loop of compile_query runs five calls
Optimize_merge ==
    /\ Pass("merge", IF iter + 1 = OptimizeIterations THEN "normalize" ELSE "collapse",
            Merge(machine, ACCEPT))
    /\ iter' = iter + 1

\* compile_query returns normalize(&machine)
Normalize ==
    /\ Pass("normalize", "compiled", normalize(machine))
    /\ UNCHANGED iter

\* Query::matches over one parsed input, for the compiled machine and for the
\* machine without optimization
Matches ==
    /\ pc = "compiled"
    /\ \E xs \in Inputs :
          /\ input' = xs
          /\ result' = matches(machine, xs)
          /\ resultRaw' = matches(raw, xs)
    /\ pc' = "matched"
    /\ UNCHANGED << INDEX, ACCEPT, query, drawn, machine, raw, iter, round, first, others >>
    /\ UNCHANGED frontVars

\* an index() call of another compilation; its Machine::new comes first, so
\* it initializes ACCEPT when this is the first use
Other_index ==
    /\ pc \in { "new", "state" }
    /\ others < MaxOther
    /\ ACCEPT' = IF ACCEPT = NoState THEN INDEX ELSE ACCEPT
    /\ INDEX' = INDEX + 1
    /\ others' = others + 1
    /\ UNCHANGED << query, pc, drawn, machine, raw, iter, input, result, resultRaw,
                    round, first >>
    /\ UNCHANGED frontVars

\* the same query AST is compiled a second time in the process
Compile_again ==
    /\ pc = "compiled"
    /\ round = 1
    /\ first' = machine
    /\ round' = 2
    /\ pc' = "new"
    /\ UNCHANGED << INDEX, ACCEPT, query, drawn, machine, raw, iter, input, result,
                    resultRaw, others >>
    /\ UNCHANGED frontVars

Compile ==
    \/ Machine_new
    \/ State_new
    \/ Compile_construct
    \/ Optimize_collapse
    \/ Optimize_inline
    \/ Optimize_prune
    \/ Optimize_dedupe
    \/ Optimize_merge
    \/ Normalize

Next == Compile \/ Matches

Spec == Init /\ [][Next]_vars

NextDet == Compile \/ Other_index \/ Compile_again

SpecDet == InitDet /\ [][NextDet]_vars

(***************************************************************************)
(* main (main.rs) with --dump-machine off: the loop over the entries of    *)
(* the directory walker.  An entry is the outcome the loop body has for    *)
(* it: the walker's error, a file that is skipped (continue), a file that  *)
(* cannot be opened, or the did_match of run_file.                         *)
(***************************************************************************)
Outcomes == { "walk_error", "skipped", "open_error", "match", "no_match" }

Walks == UNION { [1..n -> Outcomes] : n \in 0..MaxFiles }

\* Ok(did_match) without the test of retval
OkRetvalAlways(old, did_match) == IF did_match THEN 0 ELSE old

\* the arm Ok(did_match) of the match on res
OkRetval(old, did_match) == IF old = 1 /\ did_match THEN 0 ELSE old

InitMain ==
    /\ CompileIdle
    /\ ParseIdle
    /\ QueryIdle
    /\ LexIdle
    /\ walk \in Walks
    /\ visited = 0
    /\ retval = 1
    /\ mainpc = "loop"

\* an entry for which the loop body ends in continue
Main_skip ==
    /\ mainpc = "loop"
    /\ visited < Len(walk)
    /\ walk[visited + 1] = "skipped"
    /\ visited' = visited + 1
    /\ UNCHANGED << walk, retval, mainpc, compileVars, parseVars, queryVars, lexVars >>

\* res is Ok(did_match): run_file opened the file and ran the query
Main_ok ==
    /\ mainpc = "loop"
    /\ visited < Len(walk)
    /\ walk[visited + 1] \in { "match", "no_match" }
    /\ retval' = OkRetval(retval, walk[visited + 1] = "match")
    /\ visited' = visited + 1
    /\ UNCHANGED << walk, mainpc, compileVars, parseVars, queryVars, lexVars >>

\* res is Err(e): from the walker or from File::open
Main_err ==
    /\ mainpc = "loop"
    /\ visited < Len(walk)
    /\ walk[visited + 1] \in { "walk_error", "open_error" }
    /\ retval' = 2
    /\ visited' = visited + 1
    /\ UNCHANGED << walk, mainpc, compileVars, parseVars, queryVars, lexVars >>

\* std::process::exit(retval) after the loop
Main_exit ==
    /\ mainpc = "loop"
    /\ visited = Len(walk)
    /\ mainpc' = "exited"
    /\ UNCHANGED << walk, visited, retval, compileVars, parseVars, queryVars, lexVars >>

(***************************************************************************)
(* The source parser run on one token stream.                              *)
(***************************************************************************)
InitParse ==
    /\ CompileIdle
    /\ MainIdle
    /\ QueryIdle
    /\ LexIdle
    /\ stream \in Streams
    /\ options \in OptionValues
    /\ parsed = [res |-> << >>, it |-> multipeek_put_back_n(<< >>), panic |-> FALSE]
    /\ parsepc = "tokens"

\* parse_file: parse(options, tokens, false, false)
Parse ==
    /\ parsepc = "tokens"
    /\ parsed' = parse_tokens(options, stream)
    /\ parsepc' = "parsed"
    /\ UNCHANGED << stream, options, compileVars, mainVars, queryVars, lexVars >>

SpecParse == InitParse /\ [][Parse]_vars

(***************************************************************************)
(* The query parser run on one query token list.                           *)
(***************************************************************************)
InitQuery ==
    /\ CompileIdle
    /\ MainIdle
    /\ ParseIdle
    /\ LexIdle
    /\ query_tokens \in QueryStreams
    /\ query_options \in OptionValues
    /\ parsed_query = [res |-> << >>, it |-> multipeek_put_back_n(<< >>), panic |-> FALSE]
    /\ querypc = "tokens"

\* parse_query: parse_query_ast(options, tokens, false, false)
Parse_query ==
    /\ querypc = "tokens"
    /\ parsed_query' = parse_query(query_options, query_tokens)
    /\ querypc' = "parsed"
    /\ UNCHANGED << query_tokens, query_options, compileVars, mainVars, parseVars, lexVars >>

SpecQuery == InitQuery /\ [][Parse_query]_vars

(***************************************************************************)
(* The tokenizer run on one text, as a source file or as a query.          *)
(***************************************************************************)
InitLex ==
    /\ CompileIdle
    /\ MainIdle
    /\ QueryIdle
    /\ stream = << >>
    /\ options \in LexOptionValues
    /\ parsed = [res |-> << >>, it |-> multipeek_put_back_n(<< >>), panic |-> FALSE]
    /\ parsepc = "idle"
    /\ content \in Texts
    /\ is_query \in BOOLEAN
    /\ lexed = [res |-> << >>, it |-> PeekableStringIterator_new, panic |-> FALSE, skipped |-> {}]
    /\ lexpc = "text"

Tokenize ==
    /\ lexpc = "text"
    /\ ~ is_query
    /\ lexed' = tokenize(options, content)
    /\ lexpc' = "tokens"
    /\ UNCHANGED << content, is_query, compileVars, mainVars, parseVars, queryVars >>

Tokenize_query ==
    /\ lexpc = "text"
    /\ is_query
    /\ lexed' = tokenize_query(options, content)
    /\ lexpc' = "tokens"
    /\ UNCHANGED << content, is_query, compileVars, mainVars, parseVars, queryVars >>

NextLex == Tokenize \/ Tokenize_query

SpecLex == InitLex /\ [][NextLex]_vars

(***************************************************************************)
(* read_number applied to one numeric literal.                             *)
(***************************************************************************)
InitNumber ==
    /\ CompileIdle
    /\ MainIdle
    /\ ParseIdle
    /\ QueryIdle
    /\ content \in NumberTexts
    /\ is_query = FALSE
    /\ lexed = [token |-> NoToken, it |-> PeekableStringIterator_new, num |-> Decimal(0, 0)]
    /\ lexpc = "number"

\* the branch of tokenize_recur for an ASCII digit: read_number(iter, options)
Read_number ==
    /\ lexpc = "number"
    /\ lexed' = read_number(content, PeekableStringIterator_new)
    /\ lexpc' = "read"
    /\ UNCHANGED << content, is_query, compileVars, mainVars, parseVars, queryVars >>

SpecNumber == InitNumber /\ [][Read_number]_vars

NextMain == Main_skip \/ Main_ok \/ Main_err \/ Main_exit

SpecMain == InitMain /\ [][NextMain]_vars

(***************************************************************************)
(* Acceptance by position: the set of states a run can be in after it has  *)
(* consumed p nodes of the input, computed position by position.           *)
(***************************************************************************)
HasAccept(m, s) == \E i \in 1..Len(m.states[s]) : m.states[s][i][1].k = "Accept"

RECURSIVE EpsilonClosure(_, _)
EpsilonClosure(m, S) ==
    LET more == UNION { { m.states[s][i][2] :
                            i \in { j \in 1..Len(m.states[s]) :
                                      m.states[s][j][1].k = "Epsilon" } } : s \in S }
    IN IF more \subseteq S THEN S ELSE EpsilonClosure(m, S \cup more)

RECURSIVE AcceptedLengths(_, _, _)
RECURSIVE StatesAfter(_, _, _, _)

\* whether the edge label consumes the node
Consumes(m, matcher, node) ==
    CASE matcher.k = "Any" -> TRUE
      [] matcher.k = "Token" -> node.k = "Token" /\ node.ty = matcher.ty
      [] matcher.k = "Regex" ->
            node.k = "Token" /\ node.ty \in StringLiterals /\ is_match(matcher.ty, node.ty)
      [] matcher.k = "Delimited" ->
            /\ node.k = "Delimited"
            /\ node.ty = matcher.ty
            /\ AcceptedLengths(m, matcher.start, node.content) # {}
      [] OTHER -> FALSE

\* the states of the runs from start that have consumed p positions of xs;
\* position Len(xs) + 1 is reached over an End edge only
StatesAfter(m, start, xs, p) ==
    IF p = 0 THEN EpsilonClosure(m, { start })
    ELSE LET before == StatesAfter(m, start, xs, p - 1)
             moved == UNION { { m.states[s][i][2] :
                                  i \in { j \in 1..Len(m.states[s]) :
                                            IF p <= Len(xs)
                                            THEN Consumes(m, m.states[s][j][1], xs[p])
                                            ELSE m.states[s][j][1].k = "End" } } :
                              s \in before }
         IN EpsilonClosure(m, moved)

\* the numbers n for which some run from start over xs reaches Accept at n
AcceptedLengths(m, start, xs) ==
    { n \in 0..(Len(xs) + 1) :
        \E s \in StatesAfter(m, start, xs, n) : HasAccept(m, s) }

\* the match the claim C1 describes for one start: the prefix of the greatest
\* accepted length (a length past the end of the list covers the whole list)
LongestPrefix(m, tts) ==
    LET ns == AcceptedLengths(m, m.initial, tts)
    IN IF ns = {} THEN << >> ELSE << SubSeq(tts, 1, Min(SetMax(ns), Len(tts))) >>

\* C1: for every start position that yields a match, the reported match is the
\* prefix whose length is the greatest number of consumed nodes with which some
\* run of the compiled machine reaches Accept; no shorter accepting prefix is
\* reported.
LongestMatch ==
    pc = "matched" =>
        LET starts == potential_matches(input)
        IN result = Concat([i \in 1..Len(starts) |-> LongestPrefix(machine, starts[i])])

\* a start with two accepted lengths, the longer of which is reported
LongestMatchWitness ==
    /\ pc = "matched"
    /\ result # << >>
    /\ \E i \in 1..Len(input) :
          LET ns == AcceptedLengths(machine, machine.initial, SubSeq(input, i, Len(input)))
          IN /\ Cardinality(ns) >= 2
             /\ SetMax(ns) >= 2

Count(s, x) == Cardinality({ i \in 1..Len(s) : s[i] = x })

SameMultiset(s, t) == \A x \in Range(s) \cup Range(t) : Count(s, x) = Count(t, x)

\* C2: the matcher gives the same multiset of matches on the machine after the
\* five optimize iterations and normalize as on the machine produced by the
\* construction alone.
OptimizationPreserves == pc = "matched" => SameMultiset(result, resultRaw)

\* an input with matches, for a query whose optimized machine is smaller
OptimizationPreservesWitness ==
    /\ pc = "matched"
    /\ Len(result) >= 2
    /\ Cardinality(Keys(machine)) < Cardinality(Keys(raw))

(***************************************************************************)
(* The language of a query matcher: the node sequences it accepts,         *)
(* defined on the AST.  A Delimited matcher accepts one Delimited node     *)
(* with the same opener whose content has a prefix the content pattern     *)
(* accepts.  End is an anchor, not a language; the claims that use this    *)
(* definition are stated for matchers without End.                         *)
(***************************************************************************)
RECURSIVE InLanguage(_, _)
RECURSIVE InListLanguage(_, _)
RECURSIVE InStarLanguage(_, _)

\* w is the concatenation of zero or more sequences each accepted by x
InStarLanguage(x, w) ==
    \/ w = << >>
    \/ \E i \in 1..Len(w) :
          /\ InLanguage(x, SubSeq(w, 1, i))
          /\ InStarLanguage(x, SubSeq(w, i + 1, Len(w)))

\* w is accepted by the matchers of ms one after the other
InListLanguage(ms, w) ==
    IF ms = << >> THEN w = << >>
    ELSE \E i \in 0..Len(w) :
            /\ InLanguage(Head(ms), SubSeq(w, 1, i))
            /\ InListLanguage(Tail(ms), SubSeq(w, i + 1, Len(w)))

InLanguage(x, w) ==
    CASE x.k = "Token" -> Len(w) = 1 /\ w[1].k = "Token" /\ w[1].ty = x.ty
      [] x.k = "Any" -> Len(w) = 1
      [] x.k = "Regex" ->
            /\ Len(w) = 1
            /\ w[1].k = "Token"
            /\ w[1].ty \in StringLiterals
            /\ is_match(x.ty, w[1].ty)
      [] x.k = "End" -> FALSE
      [] x.k = "Delimited" ->
            /\ Len(w) = 1
            /\ w[1].k = "Delimited"
            /\ w[1].ty = x.ty
            /\ \E n \in 0..Len(w[1].content) :
                  InListLanguage(x.sub, SubSeq(w[1].content, 1, n))
      [] x.k = "Plus" ->
            \E i \in 0..Len(w) :
               /\ InLanguage(x.sub[1], SubSeq(w, 1, i))
               /\ InStarLanguage(x.sub[1], SubSeq(w, i + 1, Len(w)))
      [] x.k = "Star" -> InStarLanguage(x.sub[1], w)
      [] x.k = "QuestionMark" -> w = << >> \/ InLanguage(x.sub[1], w)
      [] x.k = "Or" -> InLanguage(x.sub[1], w) \/ InLanguage(x.sub[2], w)
      [] x.k = "Nested" -> InListLanguage(x.sub, w)

RECURSIVE EndFree(_)
EndFree(x) == x.k # "End" /\ \A i \in 1..Len(x.sub) : EndFree(x.sub[i])

\* the machine reaches Accept having consumed exactly the node sequence w
MachineAccepts(m, w) == Len(w) \in AcceptedLengths(m, m.initial, w)

Compiled == pc \in { "compiled", "matched" }

\* the query is the single matcher kind(x) for an End-free x
QueryIs(kind) == Len(query) = 1 /\ query[1].k = kind /\ EndFree(query[1])

\* C3: the machine compiled from Star(x) reaches Accept having consumed exactly
\* w if and only if w is the concatenation of zero or more sequences each
\* accepted by x, also when x is a nested group whose first element is quantified.
StarLanguage ==
    (pc = "compiled" /\ QueryIs("Star")) =>
        \A w \in Inputs : MachineAccepts(machine, w) <=> InStarLanguage(query[1].sub[1], w)

\* C4: the machine compiled from QuestionMark(x) reaches Accept having consumed
\* exactly w if and only if w is empty or w is accepted by x.
QuestionMarkLanguage ==
    (pc = "compiled" /\ QueryIs("QuestionMark")) =>
        \A w \in Inputs :
            MachineAccepts(machine, w) <=> (w = << >> \/ InLanguage(query[1].sub[1], w))

(***************************************************************************)
(* Machine invariants.                                                     *)
(***************************************************************************)
\* every id the transitions of the state refer to: targets and Delimited.start
Referenced(m, s) ==
    { m.states[s][i][2] : i \in 1..Len(m.states[s]) }
        \cup { m.states[s][i][1].start :
                 i \in { j \in 1..Len(m.states[s]) : m.states[s][j][1].k = "Delimited" } }

RECURSIVE ReachableFrom(_, _)
\* the states reached from S over transition targets and Delimited.start
ReachableFrom(m, S) ==
    LET more == UNION { Referenced(m, s) : s \in S \cap Keys(m) }
    IN IF more \subseteq S THEN S ELSE ReachableFrom(m, S \cup more)

ReferencesExist(m) ==
    /\ m.initial \in Keys(m)
    /\ \A s \in Keys(m) : Referenced(m, s) \subseteq Keys(m)

\* C5: after compile_query returns and after each optimize iteration, initial
\* and every transition target and Delimited.start is a key of states.
NoMissingId ==
    (Compiled \/ (pc \in { "collapse", "normalize" } /\ iter >= 1)) =>
        ReferencesExist(machine)

\* a returned machine with a Delimited edge into a nested start state, from
\* which optimize has removed states
NoMissingIdWitness ==
    /\ pc = "compiled"
    /\ Cardinality(Keys(machine)) < Cardinality(Keys(raw))
    /\ \E s \in Keys(machine) : \E i \in 1..Len(machine.states[s]) :
          /\ machine.states[s][i][1].k = "Delimited"
          /\ machine.states[s][i][1].start # machine.states[s][i][2]

\* the states whose whole transition list is the self-loop (Accept, own id)
AcceptStates(m) == { s \in Keys(m) : m.states[s] = << << Accept, s >> >> }

\* C6: after compile_query returns, exactly one state has as its whole
\* transition list the self-loop (Accept, own id), and it is reachable from initial.
SingleAcceptState ==
    Compiled =>
        /\ Cardinality(AcceptStates(machine)) = 1
        /\ AcceptStates(machine) \subseteq ReachableFrom(machine, { machine.initial })

\* a returned machine in which Accept is reached only through other states
SingleAcceptStateWitness ==
    /\ pc = "compiled"
    /\ Cardinality(Keys(machine)) >= 3
    /\ machine.initial \notin AcceptStates(machine)
    /\ \A i \in 1..Len(machine.states[machine.initial]) :
          machine.states[machine.initial][i][2] \notin AcceptStates(machine)

\* C7: after compile_query returns, the only state whose transition list
\* contains an edge labelled Accept is the Accept state itself.
OnlyAcceptCarriesAccept ==
    Compiled => \A s \in Keys(machine) : HasAccept(machine, s) => s \in AcceptStates(machine)

\* C8: after compile_query returns, no state reachable from initial has an
\* Epsilon transition.
NoEpsilonLeft ==
    Compiled =>
        \A s \in ReachableFrom(machine, { machine.initial }) \cap Keys(machine) :
            \A i \in 1..Len(machine.states[s]) : machine.states[s][i][1].k # "Epsilon"

\* C9: after compile_query returns, no state's transition list contains the
\* same (matcher, target) pair twice.
NoDuplicateTransition ==
    Compiled =>
        \A s \in Keys(machine) :
            \A i, j \in 1..Len(machine.states[s]) :
                i # j => machine.states[s][i] # machine.states[s][j]

\* C10: compiling the same query AST twice in one process yields identical
\* machines, whatever ids other compilations drew from INDEX before or in between.
SameMachineTwice == (round = 2 /\ pc = "compiled") => machine = first

\* a second compilation whose ids are not contiguous and differ from the first's
SameMachineTwiceWitness ==
    /\ round = 2
    /\ pc = "compiled"
    /\ others = MaxOther
    /\ Len(drawn) >= 3
    /\ \E i \in 1..(Len(drawn) - 1) : drawn[i + 1] > drawn[i] + 1

(***************************************************************************)
(* The renumbering of normalize, stated without id_map: the new id of a    *)
(* state is the number of states with a smaller id.                        *)
(***************************************************************************)
Rank(m, id) == Cardinality({ k \in Keys(m) : k < id })

\* new is old with every key, initial, target and Delimited.start replaced by its rank
RenumberedFrom(old, new) ==
    /\ Keys(new) = 0..(Cardinality(Keys(old)) - 1)
    /\ new.initial = Rank(old, old.initial)
    /\ \A k \in Keys(old) :
          LET ts == old.states[k]
              us == new.states[Rank(old, k)]
          IN /\ Len(us) = Len(ts)
             /\ \A i \in 1..Len(ts) :
                   /\ ts[i][2] \in Keys(old)
                   /\ us[i][2] = Rank(old, ts[i][2])
                   /\ us[i][1].k = ts[i][1].k
                   /\ us[i][1].ty = ts[i][1].ty
                   /\ us[i][1].cp = ts[i][1].cp
                   /\ IF ts[i][1].k = "Delimited"
                      THEN /\ ts[i][1].start \in Keys(old)
                           /\ us[i][1].start = Rank(old, ts[i][1].start)
                      ELSE us[i][1].start = ts[i][1].start

RECURSIVE Contents(_)
Contents(xs) ==
    UNION { IF xs[i].k = "Delimited"
            THEN { xs[i].content } \cup Contents(xs[i].content)
            ELSE {} : i \in 1..Len(xs) }

MatchedLists(xs) == Range(potential_matches(xs)) \cup Contents(xs)

EndEdges(m) ==
    UNION { { m.states[s][i] : i \in { j \in 1..Len(m.states[s]) :
                                          m.states[s][j][1].k = "End" } } : s \in Keys(m) }

GroupEndQuery == << TokA, PDelimited("(", ")", << TokB, PEnd >>), TokA >>

\* C12: an End edge is taken only when the position of the simulation is the
\* number of nodes of the list being matched (a top-level suffix or the
\* content of the Delimited node being matched), never while a node remains;
\* so `a (b \$) a` matches `a (b) a` with length 3 and does not match
\* `a (b a) a`, and `a \$` matches exactly the starts whose list is `a`.
EndOnlyAtListEnd ==
    pc = "matched" =>
        /\ \A t \in EndEdges(machine) : \A xs \in MatchedLists(input) :
              \A pos \in 0..Len(xs) :
                  (TransitionNext(machine, xs, pos, t) # {}) <=> (pos = Len(xs))
        /\ (query = GroupEndQuery /\ input \in GroupInputs) =>
              result = IF Len(input[2].content) = 1 THEN << input >> ELSE << >>
        /\ query = << TokA, PEnd >> =>
              LET starts == potential_matches(input)
              IN result = Concat([i \in 1..Len(starts) |->
                                     IF starts[i] = << AstToken("a") >>
                                     THEN << starts[i] >> ELSE << >>])

\* the group example: the End edge inside the group was taken after b
EndOnlyAtListEndWitness ==
    /\ pc = "matched"
    /\ query = GroupEndQuery
    /\ input \in GroupInputs
    /\ Len(result) = 1
    /\ Len(result[1]) = 3

(***************************************************************************)
(* Delimited edges and the closer of a node.                               *)
(***************************************************************************)
DelimitedEdges(m) ==
    UNION { { m.states[s][i] : i \in { j \in 1..Len(m.states[s]) :
                                          m.states[s][j][1].k = "Delimited" } } : s \in Keys(m) }

RECURSIVE EraseClosers(_)
\* the node list with the closer of every Delimited node, at any depth, absent
EraseClosers(xs) ==
    [i \in 1..Len(xs) |->
        IF xs[i].k = "Delimited"
        THEN AstDelimited(xs[i].ty, "None", EraseClosers(xs[i].content))
        ELSE xs[i]]

\* the starts whose first nodes are the token a and then a Delimited opened by (
EmptyGroupMatches(xs) ==
    LET starts == potential_matches(xs)
    IN Concat([i \in 1..Len(starts) |->
                  IF /\ Len(starts[i]) >= 2
                     /\ starts[i][1] = AstToken("a")
                     /\ starts[i][2].k = "Delimited"
                     /\ starts[i][2].ty = "("
                  THEN << SubSeq(starts[i], 1, 2) >> ELSE << >>])

\* C13: a Delimited edge matches a node exactly when the node is a Delimited
\* whose opener is the edge's op and the nested run from the edge's start
\* state reaches Accept for some prefix of the node's content; the closer of
\* the node (present, absent or mismatched) never changes the result, and an
\* empty-pattern group matches any content.
DelimitedEdgeMatch ==
    pc = "matched" =>
        /\ \A t \in DelimitedEdges(machine) : \A xs \in MatchedLists(input) :
              /\ TransitionNext(machine, xs, Len(xs), t) = {}
              /\ \A pos \in 0..(Len(xs) - 1) :
                    (TransitionNext(machine, xs, pos, t) # {})
                        <=> /\ xs[pos + 1].k = "Delimited"
                            /\ xs[pos + 1].ty = t[1].ty
                            /\ AcceptedLengths(machine, t[1].start, xs[pos + 1].content) # {}
        /\ [i \in 1..Len(result) |-> EraseClosers(result[i])]
               = matches(machine, EraseClosers(input))
        /\ query = << TokA, PDelimited("(", ")", << >>) >> =>
               result = EmptyGroupMatches(input)
        /\ input = << AstDelimited("(", ")", << AstDelimited("[", "]", << AstToken("a") >>) >>) >> =>
              /\ query = << PDelimited("(", ")", << PDelimited("[", "]", << TokA >>) >>) >>
                    => result = << input >>
              /\ query = << PDelimited("[", "]", << PDelimited("(", ")", << TokA >>) >>) >>
                    => result = << >>

\* a group with a mismatched closer matched by the empty-pattern group: a () on a ([b)]
DelimitedEdgeMatchWitness ==
    /\ pc = "matched"
    /\ query = << TokA, PDelimited("(", ")", << >>) >>
    /\ Len(input) = 2
    /\ input[2].k = "Delimited"
    /\ input[2].cp = "]"
    /\ result = << input >>

(***************************************************************************)
(* The potential starts, counted independently: one per node of the line,  *)
(* at any depth.                                                           *)
(***************************************************************************)
RECURSIVE NodeCount(_)
NodeCount(xs) ==
    IF xs = << >> THEN 0
    ELSE 1 + (IF Head(xs).k = "Delimited" THEN NodeCount(Head(xs).content) ELSE 0)
           + NodeCount(Tail(xs))

RECURSIVE StartsDepthFirst(_)
\* every suffix of the list and of every content list, each content list
\* right after the Delimited node that holds it
StartsDepthFirst(xs) ==
    IF xs = << >> THEN << >>
    ELSE << xs >>
         \o (IF Head(xs).k = "Delimited" THEN StartsDepthFirst(Head(xs).content) ELSE << >>)
         \o StartsDepthFirst(Tail(xs))

IsPrefix(p, xs) == Len(p) <= Len(xs) /\ p = SubSeq(xs, 1, Len(p))

\* the indices of the starts from which some run of the machine reaches Accept
Hits(m, starts) ==
    { i \in 1..Len(starts) : AcceptedLengths(m, m.initial, starts[i]) # {} }

\* C14: matches() runs the simulation once for every potential start, that
\* is every index k of the top-level list and of the content list of every
\* Delimited node at any depth, and yields at most one Match per start: no
\* start is skipped, none is reported twice, and the starts of one list are
\* visited in increasing k; `\.\*` on `a a` gives two matches, of lengths 2
\* then 1.
OneMatchPerStart ==
    pc = "matched" =>
        LET starts == potential_matches(input)
            hits == Sorted(Hits(machine, starts))
        IN /\ Len(starts) = NodeCount(input)
           /\ SameMultiset(starts, StartsDepthFirst(input))
           /\ \A xs \in { input } \cup Contents(input) :
                 \A k \in 1..Len(xs) :
                     potential_matches(xs)[k] = SubSeq(xs, k, Len(xs))
           /\ Len(result) = Len(hits)
           /\ \A j \in 1..Len(hits) : IsPrefix(result[j], starts[hits[j]])
           /\ (query = << Star(PAny) >> /\ input = << AstToken("a"), AstToken("a") >>) =>
                 (Len(result) = 2 /\ Len(result[1]) = 2 /\ Len(result[2]) = 1)

\* a line with a start inside a group: some but not all of the starts match,
\* one of them inside the group
OneMatchPerStartWitness ==
    /\ pc = "matched"
    /\ \E i \in 1..Len(input) : input[i].k = "Delimited" /\ input[i].content # << >>
    /\ Len(result) >= 2
    /\ Len(result) < NodeCount(input)
    /\ \E j \in 1..Len(result) : ~ IsPrefix(result[j], input) /\ result[j] # << >>
          /\ \A k \in 1..Len(input) : result[j] # SubSeq(input, k, k + Len(result[j]) - 1)

(***************************************************************************)
(* The exit status of main.                                                *)
(***************************************************************************)
ExitStatus(outcomes) ==
    IF outcomes \cap { "walk_error", "open_error" } # {} THEN 2
    ELSE IF "match" \in outcomes THEN 0
    ELSE 1

RECURSIVE Flatten(_)
\* a Delimited is its op, its flattened content and its cp when present
Flatten(nodes) ==
    IF nodes = << >> THEN << >>
    ELSE (IF Head(nodes).k = "Delimited"
          THEN << Head(nodes).op >> \o Flatten(Head(nodes).content)
                  \o (IF Head(nodes).cp = NoToken THEN << >> ELSE << Head(nodes).cp >>)
          ELSE << Head(nodes).op >>)
         \o Flatten(Tail(nodes))

RECURSIVE Groups_of(_)
\* the Delimited nodes of a list, at any depth
Groups_of(nodes) ==
    UNION { IF nodes[i].k = "Delimited"
            THEN { nodes[i] } \cup Groups_of(nodes[i].content)
            ELSE {} : i \in 1..Len(nodes) }

\* the last byte of the last token of a non-empty token list
LastByte(tokens) == tokens[Len(tokens)].hi

\* the tokens of a group before its closer: they run to the end of the stream
EndsTheStream(group, tokens) ==
    LastByte(<< group.op >> \o Flatten(group.content)) = LastByte(tokens)

Parsed == parsepc = "parsed"

\* C15: for every token sequence and every Options value parse terminates
\* without panicking, having read every token; a Delimited node has cp = None
\* exactly when the token stream ended before a closing token for the group
\* was read, and otherwise its cp is a closing token; a closer at top level
\* that closes nothing is an ordinary Token node, and no content list holds a
\* closer as a Token node.
ParseNeverFails ==
    Parsed =>
        /\ ~ parsed.panic
        /\ parsed.it.buf = << >>
        /\ \A g \in Groups_of(parsed.res) :
              /\ (g.cp = NoToken) <=> EndsTheStream(g, stream)
              /\ g.cp # NoToken =>
                    (g.cp.k = "Symbol"
                       /\ (g.cp.s \in options.block_closers \/ g.cp.s = << ">" >>))
              /\ \A i \in 1..Len(g.content) :
                    g.content[i].k = "Token" => g.content[i].op.s \notin options.block_closers
        /\ (stream # << >> /\ stream[1].s \in options.block_closers) =>
              parsed.res[1] = NodeToken(stream[1])

\* ) ( ( a: a closer that closes nothing, then two groups the end of the file leaves open
ParseNeverFailsWitness ==
    /\ Parsed
    /\ Len(parsed.res) = 2
    /\ parsed.res[1].k = "Token"
    /\ parsed.res[1].op.s = << ")" >>
    /\ parsed.res[2].k = "Delimited"
    /\ parsed.res[2].cp = NoToken
    /\ Len(parsed.res[2].content) = 1
    /\ parsed.res[2].content[1].k = "Delimited"
    /\ parsed.res[2].content[1].cp = NoToken
    /\ Len(parsed.res[2].content[1].content) = 1

RECURSIVE Bytes(_)
\* the characters of a token list, each with the kind of its token and its byte
Bytes(tokens) ==
    IF tokens = << >> THEN << >>
    ELSE [i \in 1..Len(Head(tokens).s) |->
             [k |-> Head(tokens).k, c |-> Head(tokens).s[i], at |-> Head(tokens).lo + i - 1]]
         \o Bytes(Tail(tokens))

\* the tokens that are not Symbols, in order
NotSymbols(tokens) == Retain(tokens, [i \in 1..Len(tokens) |-> tokens[i].k # "Symbol"])

\* C16 as stated: flattening the AST (a Delimited is its op, its flattened
\* content and its cp when present) yields exactly the input token sequence,
\* whatever the Options value.
FlattenIsStream == Parsed => Flatten(parsed.res) = stream

\* C16, amended: with type_parameter_parsing off flattening the AST yields
\* exactly the input token sequence; with it on a Symbol may be split into
\* several Symbols (<> into < and >), and flattening yields the same
\* characters at the same bytes in the same order, with every token that is
\* not a Symbol unchanged.
FlattenKeepsText ==
    Parsed =>
        /\ ~ options.type_parameter_parsing => Flatten(parsed.res) = stream
        /\ Bytes(Flatten(parsed.res)) = Bytes(stream)
        /\ NotSymbols(Flatten(parsed.res)) = NotSymbols(stream)
        /\ \A i \in 1..Len(Flatten(parsed.res)) :
              Flatten(parsed.res)[i].hi - Flatten(parsed.res)[i].lo + 1
                  = Len(Flatten(parsed.res)[i].s)

\* a < <> >: the <> inside the type parameters was split by split_to_symbols
FlattenKeepsTextWitness ==
    /\ Parsed
    /\ options.type_parameter_parsing
    /\ Len(stream) = 4
    /\ Len(Flatten(parsed.res)) = 5
    /\ \E g \in Groups_of(parsed.res) : \E h \in Groups_of(g.content) :
          h.op.lo = h.cp.lo - 1 /\ h.op.lo = stream[3].lo

(***************************************************************************)
(* The query parser at an Or token.                                        *)
(***************************************************************************)
QueryParsed == querypc = "parsed"

\* the index of the first Or token of a list, 0 when it has none
FirstOr(ts) ==
    IF \E i \in 1..Len(ts) : ts[i].k = "Or"
    THEN SetMin({ i \in 1..Len(ts) : ts[i].k = "Or" })
    ELSE 0

\* no token opens or closes a group
NoParens(o, ts) ==
    \A i \in 1..Len(ts) :
        ts[i].k = "Symbol" =>
            ts[i].s \notin o.block_openers \cup o.block_closers \cup { << "<" >>, << ">" >> }

\* the left operand the Or gets from the list L parsed before it
LeftOf(L) ==
    IF L = << >> THEN ParsedAstMatcher("Any", NoToken, NoToken, << >>)
    ELSE IF Len(L) = 1 THEN L[1]
    ELSE ParsedAstMatcher("Nested", NoToken, NoToken, L)

\* Or(left, Nested(right)) for the tokens before and after the Or of a group
OrOf(o, before, after) ==
    ParsedAstMatcher("Or", NoToken, NoToken,
        << LeftOf(parse_query(o, before).res),
           ParsedAstMatcher("Nested", NoToken, NoToken, parse_query(o, after).res) >>)

\* the tokens of a list strictly between positions i and j
Between(ts, i, j) == SubSeq(ts, i + 1, j - 1)

\* C19: when the query parser meets an Or token in a group whose
\* already-parsed list is L, the group's result is the single matcher
\* Or(left, Nested(right)): left is Any if L is empty, the one matcher of L if
\* |L| = 1 and Nested(L) otherwise, and right is the parse of all remaining
\* tokens of the group, up to its closer or to the end of input.  Stated for
\* the top-level group, whose tokens run to the end of input, and for a query
\* that is one parenthesised group ( ... \| ... ).
OrWrapsGroup ==
    LET ts == query_tokens
        n == Len(ts)
        i == FirstOr(ts)
    IN (QueryParsed /\ i > 0) =>
         /\ NoParens(query_options, Between(ts, 0, i)) =>
               parsed_query.res = << OrOf(query_options, Between(ts, 0, i), Between(ts, i, n + 1)) >>
         /\ ( /\ ts[1].k = "Symbol" /\ ts[1].s = << "(" >>
              /\ ts[n].k = "Symbol" /\ ts[n].s = << ")" >>
              /\ NoParens(query_options, Between(ts, 1, n)) ) =>
               parsed_query.res =
                   << ParsedAstMatcher("Delimited", try_into(ts[1]), try_into(ts[n]),
                          << OrOf(query_options, Between(ts, 1, i), Between(ts, i, n)) >>) >>

(***************************************************************************)
(* The spans of the tokens of a source text.                                *)
(***************************************************************************)
Lexed == lexpc = "tokens"

\* the bytes of a span
SpanBytes(t) == t.lo .. t.hi

\* the bytes of the text
TextBytes == 0 .. Len(content) - 1

\* C17: for every input text the spans of the tokens emitted by tokenize are
\* pairwise non-overlapping and their union is exactly the set of bytes that
\* are neither whitespace nor inside a comment (the bytes the tokenizer does
\* not skip): every such byte, a radix prefix 0x or 0b and the character
\* after it included, lies in exactly one token span.
SpansCoverText ==
    (Lexed /\ ~ is_query) =>
        /\ \A i, j \in 1..Len(lexed.res) :
              i # j => SpanBytes(lexed.res[i]) \cap SpanBytes(lexed.res[j]) = {}
        /\ UNION { SpanBytes(lexed.res[i]) : i \in 1..Len(lexed.res) }
              = TextBytes \ lexed.skipped

(***************************************************************************)
(* The escapes of a query text.  A backslash inside a string literal, a    *)
(* \"..." pattern or a comment is part of that literal or comment; any      *)
(* other backslash starts an escape.                                       *)
(***************************************************************************)
\* whether the characters s stand at position i of the text
At(c, i, s) == i + Len(s) - 1 <= Len(c) /\ SubSeq(c, i, i + Len(s) - 1) = s

\* the first position from j on where the characters s stand, Len(c) + 1 if none
Find(c, j, s) ==
    IF \E k \in j..Len(c) : At(c, k, s)
    THEN SetMin({ k \in j..Len(c) : At(c, k, s) })
    ELSE Len(c) + 1

RECURSIVE StringEnd(_, _, _)
\* the position after the literal whose content starts at j and that quote ends
StringEnd(c, j, quote) ==
    IF j > Len(c) THEN j
    ELSE IF c[j] = quote THEN j + 1
    ELSE IF c[j] = "\\" THEN StringEnd(c, j + 2, quote)
    ELSE StringEnd(c, j + 1, quote)

RECURSIVE EscapeError(_, _, _)
\* whether the text from position i on, read inside depth open \( groups, has
\* a backslash followed by a character that is no meta character, a backslash
\* at its end, a \) without an open group or a \( without its \)
EscapeError(c, i, depth) ==
    IF i > Len(c) THEN depth > 0
    ELSE IF At(c, i, << "/", "/" >>)
         THEN EscapeError(c, Find(c, i + 1, << "\n" >>), depth)
    ELSE IF At(c, i, << "/", "*" >>)
         THEN EscapeError(c, Min(Find(c, i + 2, << "*", "/" >>) + 2, Len(c) + 1), depth)
    ELSE IF c[i] \in { "\"", "'" } THEN EscapeError(c, StringEnd(c, i + 1, c[i]), depth)
    ELSE IF c[i] # "\\" THEN EscapeError(c, i + 1, depth)
    ELSE IF i = Len(c) THEN TRUE
    ELSE IF c[i + 1] = "(" THEN EscapeError(c, i + 2, depth + 1)
    ELSE IF c[i + 1] = ")" THEN depth = 0 \/ EscapeError(c, i + 2, depth - 1)
    ELSE IF c[i + 1] = "\"" THEN EscapeError(c, StringEnd(c, i + 2, "\""), depth)
    ELSE IF c[i + 1] \in { ".", "*", "+", "|", "$" } THEN EscapeError(c, i + 2, depth)
    ELSE TRUE

\* C18: tokenizing a query that contains a backslash followed by a character
\* that is not a defined meta token, a backslash at end of input, a \) with
\* no open nested group, or a \( with no matching \) ends in an error: the
\* tokenizer panics and returns no token list (so no Machine is built and
\* nothing is matched).
EscapeErrorFails ==
    (Lexed /\ is_query /\ EscapeError(content, 1, 0)) => (lexed.panic /\ lexed.res = << >>)

(***************************************************************************)
(* C21: the simulation ends on every compiled machine and node list.      *)
(***************************************************************************)
\* one round of the simulation: the frontier is replaced by the configurations
\* its transitions add
Round(m, list, frontier) ==
    UNION { UNION { TransitionNext(m, list, c[1], m.states[c[2]][i]) :
                      i \in 1..Len(m.states[c[2]]) } : c \in frontier }

RECURSIVE FrontierAfter(_, _, _, _)
\* the frontier after n rounds, or after the round that empties it
FrontierAfter(m, list, frontier, n) ==
    IF n = 0 \/ frontier = {} THEN frontier
    ELSE FrontierAfter(m, list, Round(m, list, frontier), n - 1)

\* the number of configurations of a run: positions 0..Len(input)+1 by states
Configurations(m, list) == (Len(list) + 2) * Cardinality(DOMAIN m.states)

\* the runs a call of matches makes: one per potential start, and one per
\* Delimited edge on each Delimited node of the list
Runs(m, list) ==
    LET starts == potential_matches(list)
        tops == { << m.initial, starts[i] >> : i \in 1..Len(starts) }
        edges == UNION { { m.states[s][i][1] : i \in 1..Len(m.states[s]) } : s \in DOMAIN m.states }
        inner == { << e.start, starts[i][1].content >> :
                     e \in { e \in edges : e.k = "Delimited" },
                     i \in { i \in 1..Len(starts) : starts[i][1].k = "Delimited" } }
    IN tops \cup inner

\* C21: every run of the simulation that matches makes on the compiled machine
\* (one per potential start, one per Delimited edge on a Delimited node)
\* reaches an empty frontier; a run that is not empty after one round more
\* than it has configurations repeats a configuration and never ends
SimulationTerminates ==
    pc = "matched" =>
        \A r \in Runs(machine, input) :
            FrontierAfter(machine, r[2], { << 0, r[1] >> }, Configurations(machine, r[2]) + 1) = {}

(***************************************************************************)
(* C22: the counts of states and transitions over the optimize passes.    *)
(***************************************************************************)
OptimizePositions == { "collapse", "inline", "prune", "dedupe", "merge" }

StateCount(m) == Cardinality(DOMAIN m.states)

RECURSIVE SumLen(_, _)
SumLen(m, S) ==
    IF S = {} THEN 0
    ELSE LET s == CHOOSE s \in S : TRUE
         IN Len(m.states[s]) + SumLen(m, S \ { s })

\* the total number of transitions of the machine
TransitionCount(m) == SumLen(m, DOMAIN m.states)

\* C22: no pass of optimize leaves more states or more transitions in the
\* machine than it found
PassesShrink ==
    [][(pc \in OptimizePositions) =>
          (StateCount(machine') <= StateCount(machine)
           /\ TransitionCount(machine') <= TransitionCount(machine))]_vars

\* no pass of optimize adds a state, and no pass other than the inlining of
\* Epsilon jumps adds a transition
PassesShrinkButInline ==
    [][(pc \in OptimizePositions) =>
          (StateCount(machine') <= StateCount(machine)
           /\ (pc # "inline" => TransitionCount(machine') <= TransitionCount(machine)))]_vars

\* prune has removed states of the machine as constructed and the passes so
\* far have left it with no more transitions
PassesShrinkButInlineWitness ==
    /\ pc = "dedupe"
    /\ iter = 0
    /\ StateCount(machine) < StateCount(raw)
    /\ TransitionCount(machine) < TransitionCount(raw)

(***************************************************************************)
(* C23: the Accept state over the optimize calls.                          *)
(***************************************************************************)
\* C23: from the machine as constructed to the machine handed to normalize,
\* before and after every pass, the Accept state is in states with the
\* transition list [(Accept, ACCEPT.id)], and the merge pass neither merges
\* it into another state nor another state into it
AcceptKept ==
    pc \in OptimizePositions \cup { "normalize" } =>
        /\ ACCEPT \in Keys(machine)
        /\ machine.states[ACCEPT] = << << Accept, ACCEPT >> >>
        /\ pc = "merge" =>
              LET remap == MergeRemap(machine, ACCEPT)
              IN /\ ACCEPT \notin DOMAIN remap
                 /\ \A j \in DOMAIN remap : remap[j] # ACCEPT

\* the merge pass met another state with the transition set of the Accept
\* state and left both in place
AcceptKeptWitness ==
    /\ pc = "normalize"
    /\ \E s \in Keys(machine) \ { ACCEPT } :
          Range(machine.states[s]) = Range(machine.states[ACCEPT])

(***************************************************************************)
(* C24, C25: the machine after the five optimize calls.                    *)
(***************************************************************************)
\* C24: the machine handed to normalize after the five optimize calls is
\* left as it is by one more optimize call: same states, same transition
\* lists, same initial
FixedPointAfterFive ==
    pc = "normalize" => optimize(machine, ACCEPT) = machine

\* C25: every state of the returned machine is reachable from initial over
\* transition targets and Delimited.start references
AllStatesReachable ==
    pc = "compiled" => Reachable(machine) = Keys(machine)

(***************************************************************************)
(* C30: the id of the Accept state.                                        *)
(***************************************************************************)
\* C30: in the first and in every later compilation of the process, ACCEPT.id
\* is below every id drawn for the machine and below every other key of its
\* states, and the returned machine has the Accept state under id 0
AcceptIsZero ==
    /\ \A i \in 1..Len(drawn) : ACCEPT < drawn[i]
    /\ pc \in OptimizePositions \cup { "normalize" } =>
          \A s \in Keys(machine) \ { ACCEPT } : ACCEPT < s
    /\ pc = "compiled" =>
          /\ 0 \in Keys(machine)
          /\ machine.states[0] = << << Accept, 0 >> >>

\* a later machine of the process, compiled while another compilation drew
\* ids, is returned with other states beside the Accept state
AcceptIsZeroWitness ==
    /\ pc = "compiled"
    /\ round = 2
    /\ others > 0
    /\ StateCount(machine) > 1
    /\ machine.states[0] = << << Accept, 0 >> >>

(***************************************************************************)
(* C28: the closer recorded in a Delimited node of the source parser.      *)
(***************************************************************************)
\* C28 as stated: under every Options value the cp of a Delimited node, when
\* present, is a Symbol whose text is a configured block closer
CpIsBlockCloser ==
    Parsed =>
        \A g \in Groups_of(parsed.res) :
            g.cp # NoToken => (g.cp.k = "Symbol" /\ g.cp.s \in options.block_closers)

\* C28: the cp of a Delimited node, when present, is a Symbol whose text is a
\* configured block closer or, with type_parameter_parsing on, the text >; it
\* need not be the closer that pairs with the opener
CpIsCloserOrAngle ==
    Parsed =>
        \A g \in Groups_of(parsed.res) :
            g.cp # NoToken =>
                /\ g.cp.k = "Symbol"
                /\ \/ g.cp.s \in options.block_closers
                   \/ options.type_parameter_parsing /\ g.cp.s = << ">" >>

\* with type_parameter_parsing on and > not a configured closer, a group
\* opened by < after an identifier has the Symbol > for its cp
CpIsCloserOrAngleWitness ==
    /\ Parsed
    /\ options.type_parameter_parsing
    /\ << ">" >> \notin options.block_closers
    /\ \E g \in Groups_of(parsed.res) :
          /\ g.op.s = << "<" >>
          /\ g.content # << >>
          /\ g.cp # NoToken
          /\ g.cp.k = "Symbol"
          /\ g.cp.s = << ">" >>

(***************************************************************************)
(* C26: the merging of symbol characters in the lexer.                     *)
(***************************************************************************)
\* a Symbol token read by read_paren
ParenToken(t) ==
    /\ t.k = "Symbol"
    /\ ~ identifier_regex_start(t.s[1])
    /\ is_open_paren(options, t.s) \/ is_close_paren(options, t.s)

\* a Symbol token whose first character was read by read_other
OtherToken(t) == t.k = "Symbol" /\ ~ identifier_regex_start(t.s[1]) /\ ~ ParenToken(t)

\* the token stands in the text at its span, with nothing skipped inside it
Contiguous(t) ==
    /\ t.hi - t.lo + 1 = Len(t.s)
    /\ \A n \in 1..Len(t.s) : At(content, t.lo + n, << t.s[n] >>)

\* two tokens with nothing skipped between them
Adjacent(t, u) == u.lo = t.hi + 1

\* C26 as stated: a symbol character read by read_other is merged into the
\* previous token exactly when that token is a Symbol and nothing was skipped
\* between them, so no Symbol is directly followed by a separate token that
\* read_other began, and a Symbol of several characters has nothing skipped
\* inside it
SymbolsMerged ==
    (Lexed /\ ~ lexed.panic) =>
        /\ \A i \in 1..Len(lexed.res) :
              lexed.res[i].k = "Symbol" => Contiguous(lexed.res[i])
        /\ \A i \in 1..(Len(lexed.res) - 1) :
              (lexed.res[i].k = "Symbol" /\ OtherToken(lexed.res[i + 1]))
                  => ~ Adjacent(lexed.res[i], lexed.res[i + 1])

\* C26: the character is merged exactly when the previous token is a Symbol
\* that read_paren did not read and nothing (whitespace or comment) was
\* skipped between them: a separate token begun by read_other directly
\* follows a Symbol only when that Symbol is a paren
SymbolsMergedButParens ==
    (Lexed /\ ~ lexed.panic) =>
        /\ \A i \in 1..Len(lexed.res) :
              lexed.res[i].k = "Symbol" => Contiguous(lexed.res[i])
        /\ \A i \in 1..(Len(lexed.res) - 1) :
              (lexed.res[i].k = "Symbol" /\ OtherToken(lexed.res[i + 1])
                 /\ Adjacent(lexed.res[i], lexed.res[i + 1]))
                  => ParenToken(lexed.res[i])

\* the text **(* of a source file: ** is merged, and the * after the paren
\* is a token of its own directly behind the Symbol (
SymbolsMergedButParensWitness ==
    /\ Lexed
    /\ ~ is_query
    /\ ~ lexed.panic
    /\ Len(lexed.res) = 3
    /\ OtherToken(lexed.res[1])
    /\ Len(lexed.res[1].s) = 2
    /\ ParenToken(lexed.res[2])
    /\ OtherToken(lexed.res[3])
    /\ Adjacent(lexed.res[2], lexed.res[3])

(***************************************************************************)
(* C27: identifiers that are configured block openers or closers.          *)
(***************************************************************************)
\* the text begins with the identifier w: the word, then no character that
\* continues an identifier
BeginsWithWord(w) ==
    /\ At(content, 1, w)
    /\ ~ (Len(content) > Len(w) /\ identifier_regex_continue(content[Len(w) + 1]))

\* C27: when the text begins with an identifier that is a configured block
\* opener or closer, the token list holds a Symbol with exactly that text at
\* that place, whatever character follows the word
WordParenKept ==
    (Lexed /\ ~ lexed.panic) =>
        \A w \in options.block_openers \cup options.block_closers :
            (identifier_regex_start(w[1]) /\ BeginsWithWord(w)) =>
                \E i \in 1..Len(lexed.res) :
                    /\ lexed.res[i].k = "Symbol"
                    /\ lexed.res[i].s = w
                    /\ lexed.res[i].lo = 0

(***************************************************************************)
(* C29: the value of a numeric literal whose text does not parse.          *)
(***************************************************************************)
NumberRead == lexpc = "read"

\* the radix of the literal: that of its prefix
LiteralRadix ==
    IF At(content, 1, << "0", "b" >>) THEN 2
    ELSE IF At(content, 1, << "0", "x" >>) THEN 16
    ELSE 10

\* the lengths of the non-empty prefixes of the accepted text that parse
IntegerPrefixes(s, radix) ==
    { n \in 1..Len(s) : from_str_radix(SubSeq(s, 1, n), radix) # NoValue }

FloatPrefixes(s) == { n \in 1..Len(s) : f64_from_str(SubSeq(s, 1, n)) # NoFloat }

\* C29: when the accepted text does not parse as a whole, the value of the
\* token is that of the longest prefix of the text that parses, and 0 (0.0)
\* only when no non-empty prefix parses.  Integer literals are taken in their
\* radix, literals with . or e as decimal floats.
LongestPrefixValue ==
    NumberRead =>
        LET s == lexed.token.s
            ip == IntegerPrefixes(s, LiteralRadix)
            fp == FloatPrefixes(s)
        IN /\ (lexed.token.k = "Integer" /\ from_str_radix(s, LiteralRadix) = NoValue) =>
                  lexed.num.m = IF ip = {} THEN 0
                                ELSE from_str_radix(SubSeq(s, 1, SetMax(ip)), LiteralRadix)
           /\ (lexed.token.k = "Float" /\ LiteralRadix = 10 /\ f64_from_str(s) = NoFloat) =>
                  lexed.num = IF fp = {} THEN Decimal(0, 0)
                              ELSE f64_from_str(SubSeq(s, 1, SetMax(fp)))

====
